---- MODULE Spec2Model ----
(***************************************************************************)
(* A model of the event-to-position pipeline of the shock-trade bot:       *)
(* the Risk Manager (core/risk_manager.py), the score listeners            *)
(* (services/*_listener.py), the orchestrators (services/*trade_service.py)*)
(* the Order Executor (core/order_executor.py) and the position and trade  *)
(* ledger (core/state.py).                                                 *)
(*                                                                         *)
(* Money is counted in 1/10000 of a dollar, so that a price given in whole *)
(* cents times a size given in whole cents is an exact integer.  Prices    *)
(* are counted in cents (0.27 is 27).  Fractions such as the per-trade     *)
(* share of the bankroll are counted in 1/10000 (0.005 is 50).             *)
(***************************************************************************)
EXTENDS Integers, Sequences, FiniteSets, TLC

\* ------------------------------------------------------------------ units
Cent == 10 * 10
Dollar == 100 * Cent
FracScale == 100 * 100

\* ----------------------------------------------------------------- bounds
NumMatches == 2
MaxDays == 1
MaxErrors == 6

MaxEvents == 2
MaxCallbacks == 2
MaxOrders == 3
MaxPositions == 1

Matches == 1..NumMatches
Dates == 0..MaxDays

\* The two trading modes; each contest belongs to the listener of one mode.
Modes == {"soccer", "nfl"}
ModeOf(m) == IF m % 2 = 1 THEN "soccer" ELSE "nfl"

\* A scoring event id: the contest and a number that stands for the rest of
\* the id (team, new score, period).
Events == Matches \X (1..MaxEvents)
NoEvent == <<0, 0>>

Max(a, b) == IF a >= b THEN a ELSE b
Min(a, b) == IF a <= b THEN a ELSE b

\* ------------------------------------------------- settings and its inputs
default_bankroll == 10000 * Dollar
default_max_per_trade_pct == 50
default_daily_loss_limit == 500 * Dollar
default_per_match_max_exposure == 200 * Dollar
max_consecutive_errors == 5
\* Fractions of the entry price, in 1/10000; minutes.
take_profit_pct == 1500
stop_loss_pct == 1000
max_position_time_mins == 90

\* Arguments the callers of the Risk Manager pass in the risk specification.
BankrollInputs == {10000 * Dollar, 123456 * Cent, 100 * Dollar}
PnlInputs == {-(480 * Dollar), -(500 * Dollar), 480 * Dollar}
ExposureInputs == {180 * Dollar, 200 * Dollar, -(180 * Dollar)}
MinDailyPnl == -(500 * Dollar)
MaxDailyPnl == 0 * Dollar
MaxExposure == 200 * Dollar

\* What the market resolver, the decision engines and the exchange answer in
\* the pipeline specification.
PipelineBankrolls == {10000 * Dollar, 40000 * Dollar}
MappingResults == {"markets", "empty", "error"}
LimitPrices == {27}
EntryResponses ==
    {[status |-> "none", avg_price |-> 0],
     [status |-> "error", avg_price |-> 0],
     [status |-> "resting", avg_price |-> 0],
     [status |-> "filled", avg_price |-> 0],
     [status |-> "filled", avg_price |-> 30]}
ExitResponses ==
    {[status |-> "none", avg_price |-> 0],
     [status |-> "error", avg_price |-> 0],
     [status |-> "resting", avg_price |-> 0],
     [status |-> "filled", avg_price |-> 40],
     [status |-> "filled", avg_price |-> 17]}

\* The Positions, prices and clock readings the ledger specification hands to
\* the ledger and to the Post-Trade Monitor.
OutcomeInputs == {"yes", "no"}
LedgerSizes == {50 * Dollar}
EntryPrices == {27}
MarketPrices == {17, 40}
TimeOpenInputs == {89, 90}
\* The exchange refuses the exit order or leaves it resting; the exit price
\* is then the Position's current price.
LedgerExitResponses ==
    {[status |-> "none", avg_price |-> 0],
     [status |-> "resting", avg_price |-> 0]}

\* ------------------------------------------------------------------ state
VARIABLES
    bankroll,                \* RiskManager.bankroll
    max_per_trade_pct,       \* RiskManager.max_per_trade_pct (a fraction)
    daily_loss_limit,        \* RiskManager.daily_loss_limit
    per_match_max_exposure,  \* RiskManager.per_match_max_exposure
    daily_pnl,               \* RiskManager._daily_pnl
    current_date,            \* RiskManager._current_date
    match_exposure,          \* RiskManager._match_exposure (absent key = 0)
    consecutive_errors,      \* RiskManager._consecutive_errors
    circuit_breaker_active,  \* RiskManager._circuit_breaker_active
    today,                   \* the calendar date date.today() returns
    approval,                \* history: what approve_trade returned, when the
                             \* last operation was approve_trade
    error_run,               \* history: record_error calls since the last
                             \* record_success or reset_circuit_breaker
    returned                 \* history: what cancel_order, check_order_status,
                             \* get_exit_reason or a listener's callback
                             \* returned, when it was the last operation

riskVars == <<bankroll, max_per_trade_pct, daily_loss_limit,
              per_match_max_exposure, daily_pnl, current_date, match_exposure,
              consecutive_errors, circuit_breaker_active>>
histVars == <<approval, error_run, returned>>

VARIABLES
    running,            \* [mode]: the listener's _running
    callbacks,          \* [mode]: how many times the mode's process function
                        \* is in the listener's _callbacks
    processed,          \* [mode]: StateManager._processed_goals / _nfl_scores
    loop,               \* [mode]: where the listener's poll task stands
    mappings,           \* [match]: StateManager._match_mappings / _nfl_mappings
    enabled,            \* [mode]: the trade service's _enabled
    orders,             \* every Order the executor created, by creation
    pending_orders,     \* OrderExecutor._pending_orders (ids)
    completed_orders,   \* OrderExecutor._completed_orders (ids, in order)
    positions,          \* every Position created, by creation
    open_positions,     \* StateManager._open_positions (ids)
    closed_positions,   \* StateManager._closed_positions (ids, in order)
    trades,             \* StateManager._trades
    metrics,            \* StateManager._metrics
    closes,             \* close_position calls waiting for the exchange
    invocations,        \* history: [event]: process calls started for it
    rejected_orders,    \* MonitoringService._rejected_orders
    evaluation          \* history: the arguments and the result of the
                        \* last evaluate_goal, when it was the last
                        \* operation

listenerVars == <<running, callbacks, processed>>
executorVars == <<orders, pending_orders, completed_orders>>
ledgerVars == <<positions, open_positions, closed_positions, trades, metrics>>
pipeVars == <<listenerVars, loop, mappings, enabled, executorVars, ledgerVars,
              closes, invocations,
              rejected_orders, evaluation>>
vars == <<riskVars, today, histVars, pipeVars>>

\* A poll task is asleep ("idle"), about to call the next callback of the
\* event it detected ("dispatch"), or suspended inside that callback: in the
\* market resolver's create_mapping ("mapping") or in the exchange's
\* place_order ("submit").
Idle == [pc |-> "idle", event |-> NoEvent, todo |-> 0, order |-> 0]

\* No task is inside a stretch of code that runs without an await: between
\* two awaits of one task no other task runs.
Quiet == \A md \in Modes : loop[md].pc # "dispatch"

NoReturn ==
    [op |-> "none", arg |-> 0, value |-> "none", time_open |-> 0,
     ended |-> FALSE, exchange_says |-> ""]

\* No evaluate_goal was the last operation.
NoEvaluation == [op |-> "none"]

NoApproval == [approved |-> FALSE, size |-> 0, reason |-> "none", match |-> 0]

\* --------------------------------------------------------- pure functions

\* bankroll * max_per_trade_pct, a money amount times a fraction.
MulFrac(amount, frac) ==
    (amount \div FracScale) * frac + ((amount % FracScale) * frac) \div FracScale

\* round(x, 2): to the nearest cent, a tie going to the even cent.
round2(x) ==
    LET q == x \div Cent
        r == x % Cent
    IN  IF 2 * r < Cent THEN q * Cent
        ELSE IF 2 * r > Cent THEN (q + 1) * Cent
        ELSE IF q % 2 = 0 THEN q * Cent ELSE (q + 1) * Cent

\* _reset_daily_if_needed: the values it leaves behind.
reset_daily_pnl == IF today # current_date THEN 0 ELSE daily_pnl
reset_match_exposure ==
    IF today # current_date THEN [m \in Matches |-> 0] ELSE match_exposure

_reset_daily_if_needed ==
    /\ daily_pnl' = reset_daily_pnl
    /\ match_exposure' = reset_match_exposure
    /\ current_date' = today

\* calculate_position_size, after its _reset_daily_if_needed: pnl and
\* exposure are the daily P&L and the exposure of the intent's match.
calculate_position_size_noMatchClamp(pnl, exposure) ==
    LET base_size == MulFrac(bankroll, max_per_trade_pct)
        daily_remaining == daily_loss_limit + pnl
    IN  round2(IF daily_remaining < base_size
               THEN Max(0, daily_remaining) ELSE base_size)

calculate_position_size(pnl, exposure) ==
    LET base_size == MulFrac(bankroll, max_per_trade_pct)
        daily_remaining == daily_loss_limit + pnl
        base1 == IF daily_remaining < base_size
                 THEN Max(0, daily_remaining) ELSE base_size
        match_remaining == per_match_max_exposure - exposure
        base2 == IF match_remaining < base1
                 THEN Max(0, match_remaining) ELSE base1
    IN  round2(base2)

\* check_trade_allowed, after its _reset_daily_if_needed: the reason names
\* the check that refused, "allowed" when none did.
check_trade_allowed_noBreaker(pnl, exposure) ==
    IF pnl <= -daily_loss_limit THEN "daily_loss_limit"
    ELSE IF exposure >= per_match_max_exposure THEN "per_match_exposure"
    ELSE IF calculate_position_size(pnl, exposure) < Dollar THEN "size_too_small"
    ELSE "allowed"

check_trade_allowed_noMinSize(pnl, exposure) ==
    IF circuit_breaker_active THEN "circuit_breaker"
    ELSE IF pnl <= -daily_loss_limit THEN "daily_loss_limit"
    ELSE IF exposure >= per_match_max_exposure THEN "per_match_exposure"
    ELSE "allowed"

check_trade_allowed(pnl, exposure) ==
    IF circuit_breaker_active THEN "circuit_breaker"
    ELSE IF pnl <= -daily_loss_limit THEN "daily_loss_limit"
    ELSE IF exposure >= per_match_max_exposure THEN "per_match_exposure"
    ELSE IF calculate_position_size(pnl, exposure) < Dollar THEN "size_too_small"
    ELSE "allowed"

\* approve_trade(intent) for an intent on match m: (None, reason) or a copy
\* of the intent with its size set.
approve_trade(m) ==
    LET pnl == reset_daily_pnl
        exposure == reset_match_exposure[m]
        reason == check_trade_allowed(pnl, exposure)
    IN  IF reason # "allowed"
        THEN [approved |-> FALSE, size |-> 0, reason |-> reason, match |-> m]
        ELSE [approved |-> TRUE, size |-> calculate_position_size(pnl, exposure),
              reason |-> "approved", match |-> m]

\* record_error: whether the counter has reached the breaker's threshold.
breaker_trips_late(n) == n > max_consecutive_errors

breaker_trips(n) == n >= max_consecutive_errors

\* ------------------------------------------- Risk Manager state changes
\* Each is the effect of one method on the Risk Manager's fields.

rm_record_trade_result_noReset(m, pnl, exposure_change) ==
    /\ current_date' = current_date
    /\ daily_pnl' = daily_pnl + pnl
    /\ match_exposure' =
         [match_exposure EXCEPT
            ![m] = Max(0, match_exposure[m] + exposure_change)]

rm_record_trade_result_lostUpdate(m, pnl, exposure_change) ==
    /\ current_date' = today
    /\ daily_pnl' = reset_daily_pnl + pnl
    /\ match_exposure' =
         [reset_match_exposure EXCEPT ![m] = Max(0, exposure_change)]

rm_record_trade_result(m, pnl, exposure_change) ==
    /\ current_date' = today
    /\ daily_pnl' = reset_daily_pnl + pnl
    /\ match_exposure' =
         [reset_match_exposure EXCEPT
            ![m] = Max(0, reset_match_exposure[m] + exposure_change)]

rm_record_error_recomputesFlag ==
    /\ consecutive_errors' = consecutive_errors + 1
    /\ circuit_breaker_active' = breaker_trips(consecutive_errors + 1)
    /\ error_run' = error_run + 1

rm_record_error ==
    /\ consecutive_errors' = consecutive_errors + 1
    /\ circuit_breaker_active' =
         IF breaker_trips(consecutive_errors + 1) THEN TRUE
         ELSE circuit_breaker_active
    /\ error_run' = error_run + 1

rm_record_success ==
    /\ consecutive_errors' = 0
    /\ error_run' = 0
    /\ UNCHANGED circuit_breaker_active

rm_reset_circuit_breaker_keepsCount ==
    /\ circuit_breaker_active' = FALSE
    /\ UNCHANGED <<consecutive_errors, error_run>>

rm_reset_circuit_breaker ==
    /\ circuit_breaker_active' = FALSE
    /\ consecutive_errors' = 0
    /\ error_run' = 0

rm_add_position_sets(m, size) ==
    match_exposure' = [match_exposure EXCEPT ![m] = size]

rm_add_position(m, size) ==
    match_exposure' = [match_exposure EXCEPT ![m] = match_exposure[m] + size]

\* ------------------------------------------ the Risk Manager's operations

ApproveTrade(m) ==
    /\ UNCHANGED pipeVars
    /\ _reset_daily_if_needed
    /\ approval' = approve_trade(m)
    /\ returned' = NoReturn
    /\ UNCHANGED <<bankroll, max_per_trade_pct, daily_loss_limit,
                   per_match_max_exposure, consecutive_errors,
                   circuit_breaker_active, today, error_run>>

RecordTradeResult(m, pnl, exposure_change) ==
    /\ UNCHANGED pipeVars
    /\ reset_daily_pnl + pnl >= MinDailyPnl
    /\ reset_daily_pnl + pnl <= MaxDailyPnl
    /\ reset_match_exposure[m] + exposure_change <= MaxExposure
    /\ rm_record_trade_result(m, pnl, exposure_change)
    /\ UNCHANGED <<bankroll, max_per_trade_pct, daily_loss_limit,
                   per_match_max_exposure, consecutive_errors,
                   circuit_breaker_active, today, error_run>>
    /\ approval' = NoApproval
    /\ returned' = NoReturn

RecordError ==
    /\ UNCHANGED pipeVars
    /\ consecutive_errors < MaxErrors
    /\ rm_record_error
    /\ UNCHANGED <<bankroll, max_per_trade_pct, daily_loss_limit,
                   per_match_max_exposure, daily_pnl, current_date,
                   match_exposure, today>>
    /\ approval' = NoApproval
    /\ returned' = NoReturn

RecordSuccess ==
    /\ UNCHANGED pipeVars
    /\ rm_record_success
    /\ UNCHANGED <<bankroll, max_per_trade_pct, daily_loss_limit,
                   per_match_max_exposure, daily_pnl, current_date,
                   match_exposure, today>>
    /\ approval' = NoApproval
    /\ returned' = NoReturn

ResetCircuitBreaker ==
    /\ Quiet
    /\ UNCHANGED pipeVars
    /\ rm_reset_circuit_breaker
    /\ UNCHANGED <<bankroll, max_per_trade_pct, daily_loss_limit,
                   per_match_max_exposure, daily_pnl, current_date,
                   match_exposure, today>>
    /\ approval' = NoApproval
    /\ returned' = NoReturn

UpdateBankroll(new_bankroll) ==
    /\ UNCHANGED pipeVars
    /\ bankroll' = new_bankroll
    /\ UNCHANGED <<max_per_trade_pct, daily_loss_limit, per_match_max_exposure,
                   daily_pnl, current_date, match_exposure, consecutive_errors,
                   circuit_breaker_active, today, error_run>>
    /\ approval' = NoApproval
    /\ returned' = NoReturn

\* The calendar date moves on; the Risk Manager notices at its next call.
Tick ==
    /\ UNCHANGED pipeVars
    /\ today < MaxDays
    /\ today' = today + 1
    /\ approval' = NoApproval
    /\ returned' = NoReturn
    /\ UNCHANGED <<riskVars, error_run>>


\* ------------------------------------------------------------ the executor

\* The submission failed: place_order returned None (a refusal of the
\* exchange, or a fault it caught itself) or the submission raised ("error").
submission_failed(resp) == resp.status \in {"none", "error"}

\* OrderExecutor.execute, after place_order answered: the statuses it assigns
\* to the Order, in order.  A truthy answer makes it submitted and, when the
\* answer says "filled", filled next; None and a raised fault reject it.
status_assignments_fillsAtOnce(resp) ==
    IF submission_failed(resp) THEN <<"rejected">>
    ELSE IF resp.status = "filled" THEN <<"filled">>
    ELSE <<"submitted">>

status_assignments(resp) ==
    IF submission_failed(resp) THEN <<"rejected">>
    ELSE IF resp.status = "filled" THEN <<"submitted", "filled">>
    ELSE <<"submitted">>

\* The Order's status when execute returns.
order_status_after(resp) ==
    status_assignments(resp)[Len(status_assignments(resp))]

\* order.error_message when execute returns.
error_message_unset(resp) == ""

error_message_after(resp) ==
    IF resp.status = "none" THEN "Exchange rejected order"
    ELSE IF resp.status = "error" THEN "exception"
    ELSE ""

\* result.get("avg_price", intent.limit_price), set only on a fill.
avg_fill_price_after(resp, limit_price) ==
    IF resp.status # "filled" THEN 0
    ELSE IF resp.avg_price = 0 THEN limit_price ELSE resp.avg_price

\* x or y on prices: y when x is None or 0.
Or(x, y) == IF x # 0 THEN x ELSE y

\* The Order execute creates from an intent.  trail and answer are history:
\* every status the Order has had, and what the submission produced; event
\* and nth are history: the event and the call of the orchestrator the
\* intent came from.
NewOrder(side, outcome, m, size, limit_price, e, nth) ==
    [side |-> side, outcome |-> outcome, match |-> m, size |-> size,
     limit_price |-> limit_price, status |-> "pending", avg_fill_price |-> 0,
     exchange_order_id |-> FALSE, error_message |-> "",
     trail |-> <<"pending">>, answer |-> "", event |-> e, nth |-> nth]

\* The Order when execute returns, after the exchange call produced resp.
executed(o, resp) ==
    [o EXCEPT
       !.status = order_status_after(resp),
       !.avg_fill_price = avg_fill_price_after(resp, o.limit_price),
       !.exchange_order_id = ~submission_failed(resp),
       !.error_message = error_message_after(resp),
       !.trail = o.trail \o status_assignments(resp),
       !.answer = resp.status]

\* execute up to its await of place_order: the pending Order is recorded.
execute_begin(order) ==
    /\ orders' = Append(orders, order)
    /\ pending_orders' = pending_orders \cup {Len(orders) + 1}
    /\ UNCHANGED completed_orders

\* execute from place_order's answer on: status, fill, and the finally
\* clause that moves the Order to the completed history.
execute_finish_keepsPending(id, resp) ==
    /\ orders' = [orders EXCEPT ![id] = executed(orders[id], resp)]
    /\ pending_orders' = pending_orders
    /\ completed_orders' = Append(completed_orders, id)

execute_finish(id, resp) ==
    /\ orders' = [orders EXCEPT ![id] = executed(orders[id], resp)]
    /\ pending_orders' = pending_orders \ {id}
    /\ completed_orders' = Append(completed_orders, id)

\* ------------------------------------------------------------ the listeners

\* Orders the executor can still record, less one for every callback that an
\* event under way has yet to be handed to.
Room == MaxOrders - Len(orders) - loop["soccer"].todo - loop["nfl"].todo

\* POST /bot/start for a mode whose listener is not running: registers the
\* mode's process function as a callback and starts the poll task.  (With
\* the listener running it returns "already_running" and changes nothing.)
StartBot(md) ==
    /\ Quiet
    /\ ~running[md]
    /\ callbacks[md] < MaxCallbacks
    /\ callbacks' = [callbacks EXCEPT ![md] = @ + 1]
    /\ running' = [running EXCEPT ![md] = TRUE]
    /\ approval' = NoApproval
    /\ returned' = NoReturn
    /\ UNCHANGED <<riskVars, today, error_run, processed, loop, mappings,
                   enabled, executorVars, ledgerVars, closes, invocations,
                   rejected_orders, evaluation>>

\* The Order of a mode's suspended callback, if it has one.
InFlightOrder(md) == IF loop[md].pc = "submit" THEN {loop[md].order} ELSE {}

RECURSIVE AppendAll(_, _)
AppendAll(seq, ids) ==
    IF ids = {} THEN seq
    ELSE LET id == CHOOSE x \in ids : \A y \in ids : x <= y
         IN  AppendAll(Append(seq, id), ids \ {id})

\* POST /bot/stop: stops every running listener.  stop() cancels the poll
\* task; a callback suspended in place_order is cancelled with it, and the
\* finally clause of execute moves its Order, still pending, to completed.
StopBot ==
    /\ Quiet
    /\ \E md \in Modes : running[md]
    /\ running' = [md \in Modes |-> FALSE]
    /\ loop' = [md \in Modes |-> IF running[md] THEN Idle ELSE loop[md]]
    /\ LET cancelled == UNION {IF running[md] THEN InFlightOrder(md) ELSE {} :
                                 md \in Modes}
       IN  /\ pending_orders' = pending_orders \ cancelled
           /\ completed_orders' = AppendAll(completed_orders, cancelled)
    /\ approval' = NoApproval
    /\ returned' = NoReturn
    /\ UNCHANGED <<riskVars, today, error_run, callbacks, processed, mappings,
                   enabled, orders, ledgerVars, closes, invocations,
                   rejected_orders, evaluation>>

\* is_goal_processed / is_nfl_score_processed
is_processed(md, e) == e \in processed[md]

\* The event ids of a match carry its score, so they appear in order.
Detectable(md, e) ==
    /\ ModeOf(e[1]) = md
    /\ \A k \in 1..(e[2] - 1) : <<e[1], k>> \in processed[md]

\* One pass of _poll_loop in which the provider reports scoring event e: an
\* id already processed is skipped, a new one is marked processed and handed
\* to every registered callback in turn.
Poll(md, e) ==
    /\ Quiet
    /\ running[md]
    /\ loop[md].pc = "idle"
    /\ Detectable(md, e)
    /\ Room >= callbacks[md]
    /\ ~is_processed(md, e)
    /\ processed' = [processed EXCEPT ![md] = @ \cup {e}]
    /\ loop' = [loop EXCEPT ![md] =
                  IF callbacks[md] > 0
                  THEN [pc |-> "dispatch", event |-> e,
                        todo |-> callbacks[md], order |-> 0]
                  ELSE Idle]
    /\ approval' = NoApproval
    /\ returned' = NoReturn
    /\ UNCHANGED <<riskVars, today, error_run, running, callbacks, mappings,
                   enabled, executorVars, ledgerVars, closes, invocations,
                   rejected_orders, evaluation>>

\* -------------------------------------------------------- the orchestrators

\* What the callback returned, as history.
Returned(value) == [NoReturn EXCEPT !.op = "process", !.value = value]

\* The callback returns value: _notify_callbacks goes on to the next
\* callback, and after the last one the poll task sleeps.
Return_dropsRest(md, value) ==
    /\ loop' = [loop EXCEPT ![md] = Idle]
    /\ returned' = Returned(value)

Return(md, value) ==
    /\ loop' = [loop EXCEPT ![md] =
                  IF @.todo > 1
                  THEN [pc |-> "dispatch", event |-> @.event,
                        todo |-> @.todo - 1, order |-> 0]
                  ELSE Idle]
    /\ returned' = Returned(value)

\* process_goal goes on to the execution: the Risk Manager approved an
\* intent and trading is enabled.
may_execute_ignoresSwitch(approved, is_enabled) == approved

may_execute(approved, is_enabled) == approved /\ is_enabled

\* process_goal / process_scoring_event from the mapping's markets to the
\* await of place_order: decision engine, risk approval, the enabled switch,
\* and the pending Order.  signal says whether the decision engine returns an
\* intent, limit_price is the intent's limit price; nth_add is 1 when the
\* call of the callback is counted in this same step, else 0.
evaluate_and_submit(md, has_markets, signal, limit_price, nth_add) ==
    LET e == loop[md].event
        m == e[1]
        res == approve_trade(m)
    IN  IF ~has_markets \/ ~signal
        THEN /\ Return(md, "None")
             /\ approval' = NoApproval
             /\ UNCHANGED <<daily_pnl, current_date, match_exposure,
                            executorVars>>
        ELSE /\ _reset_daily_if_needed
             /\ approval' = res
             /\ IF may_execute(res.approved, enabled[md])
                THEN /\ execute_begin(NewOrder("buy", "yes", m, res.size, limit_price,
                                               e, invocations[e] + nth_add))
                     /\ loop' = [loop EXCEPT ![md] =
                                   [@ EXCEPT !.pc = "submit",
                                             !.order = Len(orders) + 1]]
                     /\ returned' = NoReturn
                ELSE /\ Return(md, "None")
                     /\ UNCHANGED executorVars

\* process_goal's test of get_mapping: no mapping is stored for the contest,
\* one has to be created.
needs_mapping_always(m) == TRUE

needs_mapping(m) == mappings[m] = "none"

\* The listener calls process_goal / process_scoring_event for the event.
ProcessBegin(md, signal, limit_price) ==
    LET e == loop[md].event
        m == e[1]
    IN  /\ loop[md].pc = "dispatch"
        /\ invocations' = [invocations EXCEPT ![e] = @ + 1]
        /\ IF needs_mapping(m)
           THEN /\ loop' = [loop EXCEPT ![md] = [@ EXCEPT !.pc = "mapping"]]
                /\ approval' = NoApproval
                /\ returned' = NoReturn
                /\ UNCHANGED <<daily_pnl, current_date, match_exposure,
                               executorVars>>
           ELSE evaluate_and_submit(md, mappings[m] = "markets", signal,
                                    limit_price, 1)
        /\ UNCHANGED <<bankroll, max_per_trade_pct, daily_loss_limit,
                       per_match_max_exposure, consecutive_errors,
                       circuit_breaker_active, today, error_run, listenerVars,
                       mappings, enabled, ledgerVars, closes,
                       rejected_orders, evaluation>>

\* create_mapping answered: the mapping is stored and the callback goes on.
\* When it raised ("error") nothing is stored: the except clause of the
\* callback records the error with the Risk Manager and returns None.
MappingCreated(md, result, signal, limit_price) ==
    LET m == loop[md].event[1]
    IN  /\ Quiet
        /\ loop[md].pc = "mapping"
        /\ IF result = "error"
           THEN /\ rm_record_error
                /\ Return(md, "None")
                /\ approval' = NoApproval
                /\ UNCHANGED <<mappings, daily_pnl, current_date,
                               match_exposure, executorVars>>
           ELSE /\ mappings' = [mappings EXCEPT ![m] = result]
                /\ evaluate_and_submit(md, result = "markets", signal,
                                       limit_price, 0)
                /\ UNCHANGED <<consecutive_errors, circuit_breaker_active,
                               error_run>>
        /\ UNCHANGED <<bankroll, max_per_trade_pct, daily_loss_limit,
                       per_match_max_exposure, today, listenerVars,
                       enabled, ledgerVars, closes, invocations,
                       rejected_orders, evaluation>>

\* process_goal's test of the executed Order: the execution failed.
execution_failed_onlyCancelled(status) == status = "cancelled"

execution_failed(status) == status \in {"rejected", "cancelled"}

NewPosition(o, id) ==
    [match |-> o.match, outcome |-> o.outcome, size |-> o.size,
     entry_price |-> Or(o.avg_fill_price, o.limit_price),
     current_price |-> Or(o.avg_fill_price, o.limit_price),
     status |-> "open", entry_order |-> id, exit_order |-> 0,
     unrealized_pnl |-> 0, realized_pnl |-> 0]

RECURSIVE sum_sizes(_, _)
sum_sizes(ps, open) ==
    IF open = {} THEN 0
    ELSE LET p == CHOOSE x \in open : TRUE
         IN  ps[p].size + sum_sizes(ps, open \ {p})

RECURSIVE sum_pnl(_)
sum_pnl(ts) == IF ts = <<>> THEN 0 ELSE Head(ts).pnl + sum_pnl(Tail(ts))

\* StateManager._update_metrics: the metrics recomputed from the Positions
\* ps, the open ones among them and the Trades ts as they are at the call.
update_metrics(ps, open, ts) ==
    [total_trades |-> Len(ts),
     winning_trades |-> Cardinality({i \in 1..Len(ts) : ts[i].pnl > 0}),
     losing_trades |-> Cardinality({i \in 1..Len(ts) : ts[i].pnl < 0}),
     total_pnl |-> sum_pnl(ts),
     open_positions |-> Cardinality(open),
     total_exposure |-> sum_sizes(ps, open)]

NewTrade(o, position, e) ==
    [match |-> o.match, outcome |-> o.outcome,
     entry_price |-> position.entry_price, size |-> o.size,
     event |-> e, exit_time |-> FALSE, exit_price |-> 0, pnl |-> 0,
     pnl_pct |-> 0]

\* MonitoringService.record_order_rejected
record_order_rejected_skipped == rejected_orders' = rejected_orders

record_order_rejected == rejected_orders' = rejected_orders + 1

\* place_order answered the entry order: execute finishes, and the callback
\* records the error or creates the Position and the Trade.
ProcessFinish(md, resp) ==
    LET id == loop[md].order
        o == executed(orders[id], resp)
        position == NewPosition(o, id)
    IN  /\ Quiet
        /\ loop[md].pc = "submit"
        /\ execute_finish(id, resp)
        /\ IF execution_failed(o.status)
           THEN /\ rm_record_error
                /\ record_order_rejected
                /\ UNCHANGED <<match_exposure, ledgerVars>>
           ELSE /\ rm_record_success
                /\ UNCHANGED rejected_orders
                /\ positions' = Append(positions, position)
                /\ open_positions' = open_positions \cup {Len(positions) + 1}
                /\ rm_add_position(o.match, position.size)
                /\ trades' = Append(trades, NewTrade(o, position, loop[md].event))
                /\ metrics' = update_metrics(positions', open_positions',
                                             trades')
                /\ UNCHANGED closed_positions
        /\ Return(md, IF execution_failed(o.status) THEN "None" ELSE "Trade")
        /\ approval' = NoApproval
        /\ UNCHANGED <<bankroll, max_per_trade_pct, daily_loss_limit,
                       per_match_max_exposure, daily_pnl, current_date, today,
                       listenerVars, mappings, enabled, closes, invocations,
                       evaluation>>

\* What close_position returned, as history: the closed Position or None.
Closed(p, value) ==
    [NoReturn EXCEPT !.op = "close_position", !.arg = p, !.value = value]

\* close_position up to its await of place_order: the sell intent at the
\* current price less 0.02.  A limit price of zero makes the contract count
\* divide by zero, which execute turns into a rejected Order.
CloseBegin(p) ==
    LET position == positions[p]
        limit_price == position.current_price - 2
        id == Len(orders) + 1
        o == NewOrder("sell", position.outcome, position.match, position.size,
                      limit_price, NoEvent, 0)
    IN  /\ Quiet
        /\ p \in open_positions
        /\ Room >= 1
        /\ IF limit_price = 0
           THEN /\ orders' = Append(orders,
                               executed(o, [status |-> "error", avg_price |-> 0]))
                /\ completed_orders' = Append(completed_orders, id)
                /\ UNCHANGED <<pending_orders, closes>>
           ELSE /\ execute_begin(o)
                /\ closes' = closes \cup {[pos |-> p, order |-> id]}
        /\ approval' = NoApproval
        /\ returned' = IF limit_price = 0 THEN Closed(p, "None") ELSE NoReturn
        /\ UNCHANGED <<riskVars, today, error_run, listenerVars, loop,
                       mappings, enabled, ledgerVars, invocations,
                       rejected_orders, evaluation>>

\* StateManager.get_trades(): the last 100 trades.
get_trades == {k \in 1..Len(trades) : k > Len(trades) - 100}

\* The Trade close_position finalizes: the first of get_trades() on the
\* Position's match that has no exit_time; 0 when there is none.
trade_to_finalize(m) ==
    LET S == {k \in get_trades : trades[k].match = m /\ ~trades[k].exit_time}
    IN  IF S = {} THEN 0 ELSE CHOOSE k \in S : \A j \in S : k <= j

\* a / b rounded towards zero.
Quot(a, b) == IF a >= 0 THEN a \div b ELSE -((-a) \div b)

\* StateManager.close_position: the realized P&L of a Position, the price
\* difference times the size, with the sign turned for "no".
realized_pnl(position, exit_price) ==
    IF position.outcome = "yes"
    THEN Quot((exit_price - position.entry_price) * position.size, 100)
    ELSE Quot((position.entry_price - exit_price) * position.size, 100)

\* close_position's pnl_pct of the Trade it finalizes, in hundredths of a
\* percent: (exit_price - trade.entry_price) / trade.entry_price * 100.
trade_pnl_pct(trade, exit_price) ==
    IF trade.entry_price > 0
    THEN Quot((exit_price - trade.entry_price) * FracScale, trade.entry_price)
    ELSE 0

\* PostTradeManager.calculate_pnl: the percentage, in hundredths of a
\* percent, with the sign turned for "no".
calculate_pnl_pct(entry_price, exit_price, outcome) ==
    IF entry_price <= 0 THEN 0
    ELSE IF outcome = "yes"
         THEN Quot((exit_price - entry_price) * FracScale, entry_price)
         ELSE Quot((entry_price - exit_price) * FracScale, entry_price)

\* PostTradeManager.calculate_pnl: the dollars, size times the fraction.
calculate_pnl_dollars(entry_price, exit_price, size, outcome) ==
    IF entry_price <= 0 THEN 0
    ELSE IF outcome = "yes"
         THEN Quot((exit_price - entry_price) * size, entry_price)
         ELSE Quot((entry_price - exit_price) * size, entry_price)

\* StateManager.close_position finds the Position: pop takes it out of the
\* open set, and returns nothing for a Position that is not open.
close_position_finds_always(p) == TRUE

close_position_finds_stale(p) == p \in 1..Len(positions)

close_position_finds(p) == p \in open_positions

\* close_position's test of the Order execute returned: there is one and it
\* is not rejected.
exit_accepted_any(o) == TRUE

exit_accepted(o) == o.status # "rejected"

\* place_order answered the exit order: execute finishes; unless the Order
\* is rejected the Position is closed, a Trade finalized and the result
\* recorded with the Risk Manager.
CloseFinish(c, resp) ==
    LET id == c.order
        p == c.pos
        position == positions[p]
        o == executed(orders[id], resp)
        exit_price == Or(o.avg_fill_price, position.current_price)
        pnl == realized_pnl(position, exit_price)
        k == trade_to_finalize(position.match)
    IN  /\ Quiet
        /\ c \in closes
        /\ closes' = closes \ {c}
        /\ execute_finish(id, resp)
        /\ IF exit_accepted(o) /\ close_position_finds(p)
           THEN /\ open_positions' = open_positions \ {p}
                /\ positions' = [positions EXCEPT
                      ![p] = [@ EXCEPT !.status = "closed",
                                       !.current_price = exit_price,
                                       !.exit_order = id,
                                       !.realized_pnl = pnl]]
                /\ closed_positions' = Append(closed_positions, p)
                /\ metrics' = update_metrics(positions', open_positions',
                                             trades)
                /\ trades' = IF k = 0 THEN trades
                             ELSE [trades EXCEPT
                                     ![k] = [@ EXCEPT !.exit_time = TRUE,
                                                      !.exit_price = exit_price,
                                                      !.pnl = pnl,
                                                      !.pnl_pct =
                                                        trade_pnl_pct(trades[k], exit_price)]]
                /\ rm_record_trade_result(position.match, pnl, -position.size)
           ELSE UNCHANGED <<ledgerVars, daily_pnl, current_date, match_exposure>>
        /\ approval' = NoApproval
        /\ returned' = Closed(p, IF exit_accepted(o)
                                     /\ close_position_finds(p)
                                  THEN "Position" ELSE "None")
        /\ UNCHANGED <<bankroll, max_per_trade_pct, daily_loss_limit,
                       per_match_max_exposure, consecutive_errors,
                       circuit_breaker_active, today, error_run, listenerVars,
                       loop, mappings, enabled, invocations,
                       rejected_orders, evaluation>>

\* POST /config/trading/enable and /disable: the soccer trade service's
\* switch.
SetTrading(on) ==
    /\ Quiet
    /\ enabled["soccer"] # on
    /\ enabled' = [enabled EXCEPT !["soccer"] = on]
    /\ approval' = NoApproval
    /\ returned' = NoReturn
    /\ UNCHANGED <<riskVars, today, error_run, listenerVars, loop, mappings,
                   executorVars, ledgerVars, closes, invocations,
                   rejected_orders, evaluation>>

\* ----------------------------------------------- the Post-Trade Monitor

\* StateManager.update_position_price: the unrealized P&L, the price
\* difference times the size, with the sign turned for "no".
unrealized_pnl(position, current_price) ==
    IF position.outcome = "yes"
    THEN Quot((current_price - position.entry_price) * position.size, 100)
    ELSE Quot((position.entry_price - current_price) * position.size, 100)

\* PostTradeManager.calculate_unrealized_pnl: the percentage.
unrealized_pnl_pct(position) ==
    calculate_pnl_pct(position.entry_price, position.current_price,
                      position.outcome)

check_take_profit(position) == unrealized_pnl_pct(position) >= take_profit_pct

check_stop_loss(position) == unrealized_pnl_pct(position) <= -stop_loss_pct

check_time_exit(time_open) == time_open >= max_position_time_mins

\* PostTradeManager.get_exit_reason
get_exit_reason_timeFirst(position, time_open, ended) ==
    IF check_time_exit(time_open) THEN "time_exit"
    ELSE IF check_take_profit(position) THEN "take_profit"
    ELSE IF check_stop_loss(position) THEN "stop_loss"
    ELSE IF ended THEN "match_ended"
    ELSE "none"

get_exit_reason(position, time_open, ended) ==
    IF check_take_profit(position) THEN "take_profit"
    ELSE IF check_stop_loss(position) THEN "stop_loss"
    ELSE IF check_time_exit(time_open) THEN "time_exit"
    ELSE IF ended THEN "match_ended"
    ELSE "none"

\* TradeService.check_exit_conditions: the fraction it compares with the
\* take-profit and stop-loss settings, in 1/10000.
exit_trigger_pct(position) ==
    IF position.entry_price > 0
    THEN Quot((position.current_price - position.entry_price) * FracScale,
              position.entry_price)
    ELSE 0

\* Steps 5 and 6 of process_goal for an executed Order whose outcome, size
\* and price are drawn from the inputs: the Position and the Trade are added
\* to the ledger and the exposure to the Risk Manager.
OpenPosition(m, outcome, size, price) ==
    LET o == executed(NewOrder("buy", outcome, m, size, price, NoEvent, 0),
                      [status |-> "resting", avg_price |-> 0])
        position == NewPosition(o, 0)
    IN  /\ Len(positions) < MaxPositions
        /\ positions' = Append(positions, position)
        /\ open_positions' = open_positions \cup {Len(positions) + 1}
        /\ rm_add_position(m, position.size)
        /\ trades' = Append(trades, NewTrade(o, position, NoEvent))
        /\ metrics' = update_metrics(positions', open_positions', trades')
        /\ approval' = NoApproval
        /\ returned' = NoReturn
        /\ UNCHANGED <<bankroll, max_per_trade_pct, daily_loss_limit,
                       per_match_max_exposure, daily_pnl, current_date,
                       consecutive_errors, circuit_breaker_active, today,
                       error_run, listenerVars, loop, mappings, enabled,
                       executorVars, closed_positions, closes, invocations,
                       rejected_orders, evaluation>>

\* StateManager.update_position_price
UpdatePositionPrice(p, current_price) ==
    /\ p \in open_positions
    /\ positions' = [positions EXCEPT
          ![p] = [@ EXCEPT !.current_price = current_price,
                           !.unrealized_pnl =
                              unrealized_pnl(positions[p], current_price)]]
    /\ approval' = NoApproval
    /\ returned' = NoReturn
    /\ UNCHANGED <<riskVars, today, error_run, listenerVars, loop, mappings,
                   enabled, executorVars, open_positions, closed_positions,
                   trades, metrics, closes, invocations,
                   rejected_orders, evaluation>>

\* PostTradeManager.get_exit_reason for an open Position, time_open minutes
\* after it was opened, its contest ended or not.
GetExitReason(p, time_open, ended) ==
    /\ p \in open_positions
    /\ approval' = NoApproval
    /\ returned' = [op |-> "get_exit_reason", arg |-> p,
                    value |-> get_exit_reason(positions[p], time_open, ended),
                    time_open |-> time_open, ended |-> ended,
                    exchange_says |-> ""]
    /\ UNCHANGED <<riskVars, today, error_run, pipeVars>>

\* --------------------------------------------- the executor's other calls

\* execute for an intent drawn from the inputs, up to its await.
ExecuteBegin(m, size, limit_price) ==
    /\ Len(orders) < MaxOrders
    /\ execute_begin(NewOrder("buy", "yes", m, size, limit_price, NoEvent, 0))
    /\ approval' = NoApproval
    /\ returned' = NoReturn
    /\ UNCHANGED <<riskVars, today, error_run, listenerVars, loop, mappings,
                   enabled, ledgerVars, closes, invocations,
                   rejected_orders, evaluation>>

\* execute from the answer of the submission on.
ExecuteFinish(id, resp) ==
    /\ id \in pending_orders
    /\ execute_finish(id, resp)
    /\ approval' = NoApproval
    /\ returned' = NoReturn
    /\ UNCHANGED <<riskVars, today, error_run, listenerVars, loop, mappings,
                   enabled, ledgerVars, closes, invocations,
                   rejected_orders, evaluation>>

\* cancel_order goes to the exchange: the Order has an exchange id.
cancellable_always(order) == TRUE

cancellable(order) == order.exchange_order_id

\* cancel_order(id); the exchange confirms the cancellation or refuses it.
CancelOrder(id, exchange_says) ==
    LET cancels == /\ id \in pending_orders
                   /\ cancellable(orders[id])
                   /\ exchange_says = "confirms"
    IN  /\ id \in 1..Len(orders)
        /\ IF cancels
           THEN /\ orders' = [orders EXCEPT
                     ![id] = [@ EXCEPT !.status = "cancelled",
                                       !.trail = Append(@, "cancelled")]]
                /\ pending_orders' = pending_orders \ {id}
                /\ completed_orders' = Append(completed_orders, id)
           ELSE UNCHANGED executorVars
        /\ approval' = NoApproval
        /\ returned' = [op |-> "cancel_order", arg |-> id,
                        value |-> IF cancels THEN "True" ELSE "False",
                        time_open |-> 0, ended |-> FALSE,
                        exchange_says |-> exchange_says]
        /\ UNCHANGED <<riskVars, today, error_run, listenerVars, loop,
                       mappings, enabled, ledgerVars, closes, invocations,
                       rejected_orders, evaluation>>

\* check_order_status asks the exchange: the Order is in the pending working
\* set and has an exchange id.
requeries(id) == id \in pending_orders /\ orders[id].exchange_order_id

\* check_order_status(id); exchange_says is how the exchange lists the Order:
\* "open", closed as "filled" or "cancelled", or not at all ("absent").
CheckOrderStatus(id, exchange_says) ==
    LET moves == requeries(id) /\ exchange_says # "open"
        status == IF exchange_says \in {"filled", "cancelled"}
                  THEN exchange_says ELSE orders[id].status
    IN  /\ id \in 1..Len(orders)
        /\ IF moves
           THEN /\ orders' = [orders EXCEPT
                     ![id] = [@ EXCEPT
                        !.status = status,
                        !.avg_fill_price =
                           IF status = "filled" THEN orders[id].limit_price
                           ELSE @,
                        !.trail = IF status = orders[id].status THEN @
                                  ELSE Append(@, status)]]
                /\ pending_orders' = pending_orders \ {id}
                /\ completed_orders' = Append(completed_orders, id)
           ELSE UNCHANGED executorVars
        /\ approval' = NoApproval
        /\ returned' = [op |-> "check_order_status", arg |-> id,
                        value |-> orders'[id].status,
                        time_open |-> 0, ended |-> FALSE,
                        exchange_says |-> exchange_says]
        /\ UNCHANGED <<riskVars, today, error_run, listenerVars, loop,
                       mappings, enabled, ledgerVars, closes, invocations,
                       rejected_orders, evaluation>>

\* ------------------------------------------------- the Strategy Evaluator
\* Probabilities and prices are in cents.  A pre-event probability is known
\* or absent (None).

underdog_threshold == 50
min_liquidity == 100
max_price_after_goal == 65
min_time_remaining == 15
expected_move == 10
match_minutes == 90

NoProb == [known |-> FALSE, value |-> 0]
Prob(v) == [known |-> TRUE, value |-> v]

\* The market find_best_market returns for the scoring team, or none.
NoMarket == [found |-> FALSE, yes_price |-> 0, yes_volume |-> 0, no_volume |-> 0]

ProbInputs == {NoProb, Prob(35), Prob(50), Prob(65)}
MarketInputs ==
    {NoMarket} \cup
    [found : {TRUE}, yes_price : {35, 55, 70}, yes_volume : {40, 50},
     no_volume : {50}]
GoalMinuteInputs == {0, 75, 76}
MatchMinuteInputs == {25, 80}

\* is_underdog: the pre-event probability of the scoring team and whether it
\* makes the team the underdog; without a probability the away team is.
pre_goal_prob(is_home, mapping) ==
    IF is_home THEN mapping.pre_goal_home_prob ELSE mapping.pre_goal_away_prob

is_underdog_inclusive(is_home, mapping) ==
    LET pre_prob == pre_goal_prob(is_home, mapping)
    IN  IF ~pre_prob.known THEN ~is_home
        ELSE pre_prob.value <= underdog_threshold

is_underdog(is_home, mapping) ==
    LET pre_prob == pre_goal_prob(is_home, mapping)
    IN  IF ~pre_prob.known THEN ~is_home
        ELSE pre_prob.value < underdog_threshold

\* check_value: the current price still offers value.
check_value(market, pre_prob) ==
    IF market.yes_price > max_price_after_goal THEN FALSE
    ELSE IF pre_prob.known /\ market.yes_price < pre_prob.value + expected_move
         THEN TRUE
    ELSE market.yes_price < 50

\* check_liquidity
check_liquidity(market) ==
    ~(market.yes_volume + market.no_volume < min_liquidity)

\* check_time_remaining: goal_event.minute or match.minute or 0.
check_time_remaining(goal_minute, match_minute) ==
    LET minute == Or(goal_minute, match_minute)
    IN  ~(match_minutes - minute < min_time_remaining)

\* No intent.
NoIntent == [intent |-> FALSE, limit_price |-> 0]

\* evaluate_goal: None, or a buy intent on "yes" at the market's price plus
\* 0.02.
evaluate_goal(is_home, mapping, market, goal_minute, match_minute) ==
    IF ~is_underdog(is_home, mapping) THEN NoIntent
    ELSE IF ~market.found THEN NoIntent
    ELSE IF ~check_value(market, pre_goal_prob(is_home, mapping)) THEN NoIntent
    ELSE IF ~check_liquidity(market) THEN NoIntent
    ELSE IF ~check_time_remaining(goal_minute, match_minute) THEN NoIntent
    ELSE [intent |-> TRUE, limit_price |-> market.yes_price + 2]

\* A call of evaluate_goal.
EvaluateGoal(is_home, mapping, market, goal_minute, match_minute) ==
    /\ evaluation' =
         [op |-> "evaluate_goal", is_home |-> is_home, mapping |-> mapping,
          market |-> market, goal_minute |-> goal_minute,
          match_minute |-> match_minute,
          result |-> evaluate_goal(is_home, mapping, market, goal_minute,
                                   match_minute)]
    /\ approval' = NoApproval
    /\ returned' = NoReturn
    /\ UNCHANGED <<riskVars, today, error_run, listenerVars, loop, mappings,
                   enabled, executorVars, ledgerVars, closes, invocations,
                   rejected_orders>>

\* --------------------------------------------------------- specifications
InitPipelineState ==
    /\ running = [md \in Modes |-> FALSE]
    /\ callbacks = [md \in Modes |-> 0]
    /\ processed = [md \in Modes |-> {}]
    /\ loop = [md \in Modes |-> Idle]
    /\ mappings = [m \in Matches |-> "none"]
    /\ enabled = [md \in Modes |-> TRUE]
    /\ orders = <<>>
    /\ pending_orders = {}
    /\ completed_orders = <<>>
    /\ positions = <<>>
    /\ open_positions = {}
    /\ closed_positions = <<>>
    /\ trades = <<>>
    /\ metrics = update_metrics(<<>>, {}, <<>>)
    /\ closes = {}
    /\ invocations = [e \in Events |-> 0]
    /\ rejected_orders = 0

InitPipeline ==
    /\ InitPipelineState
    /\ evaluation = NoEvaluation

InitRiskManager ==
    /\ bankroll = default_bankroll
    /\ max_per_trade_pct = default_max_per_trade_pct
    /\ daily_loss_limit = default_daily_loss_limit
    /\ per_match_max_exposure = default_per_match_max_exposure
    /\ daily_pnl = 0
    /\ current_date = 0
    /\ match_exposure = [m \in Matches |-> 0]
    /\ consecutive_errors = 0
    /\ circuit_breaker_active = FALSE
    /\ today = 0
    /\ approval = NoApproval
    /\ error_run = 0
    /\ returned = NoReturn

InitRisk ==
    /\ InitRiskManager
    /\ InitPipeline

NextRisk ==
    \/ \E m \in Matches : ApproveTrade(m)
    \/ \E m \in Matches, pnl \in PnlInputs, dx \in ExposureInputs :
          RecordTradeResult(m, pnl, dx)
    \/ RecordError
    \/ RecordSuccess
    \/ ResetCircuitBreaker
    \/ \E b \in BankrollInputs : UpdateBankroll(b)
    \/ Tick

SpecRisk == InitRisk /\ [][NextRisk]_vars

\* The ledger specification: the ledger, close_position and the Post-Trade
\* Monitor, applied to Positions drawn from the inputs.
NextLedger ==
    \/ \E m \in Matches, outcome \in OutcomeInputs, size \in LedgerSizes,
          price \in EntryPrices : OpenPosition(m, outcome, size, price)
    \/ \E p \in 1..Len(positions), price \in MarketPrices :
          UpdatePositionPrice(p, price)
    \/ \E p \in 1..Len(positions), time_open \in TimeOpenInputs,
          ended \in BOOLEAN : GetExitReason(p, time_open, ended)
    \/ \E p \in 1..Len(positions) : CloseBegin(p)
    \/ \E c \in closes, resp \in LedgerExitResponses : CloseFinish(c, resp)

SpecLedger == InitRisk /\ [][NextLedger]_vars

\* The executor specification: execute, cancel_order and check_order_status
\* called with intents and exchange answers drawn from the inputs.
NextExecutor ==
    \/ \E size \in LedgerSizes, lp \in LimitPrices : ExecuteBegin(1, size, lp)
    \/ \E id \in pending_orders, resp \in EntryResponses :
          ExecuteFinish(id, resp)
    \/ \E id \in 1..Len(orders), says \in {"confirms", "refuses"} :
          CancelOrder(id, says)
    \/ \E id \in 1..Len(orders),
          says \in {"open", "filled", "cancelled", "absent"} :
          CheckOrderStatus(id, says)

SpecExecutor == InitRisk /\ [][NextExecutor]_vars

\* The evaluator specification: evaluate_goal called with mappings, markets
\* and minutes drawn from the inputs.
NextDecision ==
    \E is_home \in BOOLEAN, home \in ProbInputs, away \in ProbInputs,
       market \in MarketInputs, goal_minute \in GoalMinuteInputs,
       match_minute \in MatchMinuteInputs :
      EvaluateGoal(is_home,
                   [pre_goal_home_prob |-> home, pre_goal_away_prob |-> away],
                   market, goal_minute, match_minute)

SpecDecision == InitRisk /\ [][NextDecision]_vars

Init ==
    /\ bankroll \in PipelineBankrolls
    /\ max_per_trade_pct = default_max_per_trade_pct
    /\ daily_loss_limit = default_daily_loss_limit
    /\ per_match_max_exposure = default_per_match_max_exposure
    /\ daily_pnl = 0
    /\ current_date = 0
    /\ match_exposure = [m \in Matches |-> 0]
    /\ consecutive_errors = 0
    /\ circuit_breaker_active = FALSE
    /\ today = 0
    /\ approval = NoApproval
    /\ error_run = 0
    /\ returned = NoReturn
    /\ InitPipeline

\* The pipeline specification runs the soccer pipeline: the listener, the
\* orchestrator, the Risk Manager, the executor and the ledger.
Pipelines == {"soccer"}

Next ==
    \/ \E md \in Pipelines : StartBot(md)
    \/ StopBot
    \/ \E md \in Pipelines, e \in Events : Poll(md, e)
    \/ \E md \in Pipelines, signal \in BOOLEAN, lp \in LimitPrices :
          ProcessBegin(md, signal, lp)
    \/ \E md \in Pipelines, result \in MappingResults, signal \in BOOLEAN,
          lp \in LimitPrices : MappingCreated(md, result, signal, lp)
    \/ \E md \in Pipelines, resp \in EntryResponses : ProcessFinish(md, resp)
    \/ \E p \in 1..Len(positions) : CloseBegin(p)
    \/ \E c \in closes, resp \in ExitResponses : CloseFinish(c, resp)
    \/ \E on \in BOOLEAN : SetTrading(on)
    \/ Tick

Spec == Init /\ [][Next]_vars

\* The two-mode specification: the soccer and the NFL pipeline run side by
\* side on the one Risk Manager, executor and ledger, within one calendar
\* day; every event carries a signal and every contest has markets.
ModesEntryResponses ==
    {[status |-> "none", avg_price |-> 0],
     [status |-> "filled", avg_price |-> 30]}
ModesExitResponses ==
    {[status |-> "filled", avg_price |-> 40],
     [status |-> "filled", avg_price |-> 17]}

NextModes ==
    \/ \E md \in Modes : StartBot(md)
    \/ \E md \in Modes, e \in Events : Poll(md, e)
    \/ \E md \in Modes, lp \in LimitPrices : ProcessBegin(md, TRUE, lp)
    \/ \E md \in Modes, lp \in LimitPrices :
          MappingCreated(md, "markets", TRUE, lp)
    \/ \E md \in Modes, resp \in ModesEntryResponses : ProcessFinish(md, resp)
    \/ \E p \in 1..Len(positions) : CloseBegin(p)
    \/ \E c \in closes, resp \in ModesExitResponses : CloseFinish(c, resp)

SpecModes == InitRisk /\ [][NextModes]_vars

\* ------------------------------------------------------------ claims C6-C10

\* The Position and the Trade created together share their index: process_goal
\* appends one Position and one Trade in the same step.
PositionOf(k) == positions[k]

\* The call of the orchestrator that created an Order was a repeated one: the
\* event had been handed to the orchestrator before.
Repeated(o) == o.side = "buy" /\ o.nth >= 2

\* Every event has been handed to the orchestrator at most once so far.
NoRepeat == \A e \in Events : invocations[e] <= 1

RECURSIVE SumSizes(_)
SumSizes(ps) ==
    IF ps = {} THEN 0
    ELSE LET p == CHOOSE x \in ps : TRUE
         IN  positions[p].size + SumSizes(ps \ {p})

\* The sum of the sizes of a contest's open Positions.
OpenExposure(m) == SumSizes({p \in open_positions : positions[p].match = m})

\* C1: a call of process_goal / process_scoring_event with an event that is
\* already marked processed and was handed to it before creates no Order, no
\* Position and no Trade.  (Violated: the orchestrator never consults the
\* processed set, and the second call trades again.)
C1_RepeatedCallCreatesNothing ==
    /\ \A i \in 1..Len(orders) : ~Repeated(orders[i])
    /\ \A p \in 1..Len(positions) : ~Repeated(orders[positions[p].entry_order])
    /\ \A k \in 1..Len(trades) :
         ~Repeated(orders[PositionOf(k).entry_order])

\* C2: each scoring event id is handed to the orchestrator at most once, also
\* when the listener is stopped and started again.  (Violated: every start
\* registers the callback once more.)
C2_DispatchedAtMostOnce == \A e \in Events : invocations[e] <= 1

\* C3: for every contest the sum of the sizes of its open Positions is at
\* most the per-contest exposure limit.  (Violated after a daily rollover,
\* which clears the tracked exposure while the Positions stay open, even when
\* every event is dispatched once.)
C3_OpenExposureWithinLimit ==
    NoRepeat => \A m \in Matches : OpenExposure(m) <= per_match_max_exposure

C5_TradeExitIffPositionClosed ==
    NoRepeat =>
      \A k \in 1..Len(trades) :
         /\ trades[k].exit_time <=> (PositionOf(k).status = "closed")
         /\ trades[k].exit_time => trades[k].pnl = PositionOf(k).realized_pnl

\* C6: while the circuit breaker is active, approve_trade returns
\* (None, reason) for every intent, whatever the daily P&L, the exposure, the
\* bankroll and the error counter are.
C6_BreakerRejectsEveryIntent ==
    circuit_breaker_active =>
        /\ \A m \in Matches : ~approve_trade(m).approved
        /\ (approval.reason # "none" => ~approval.approved)

\* C6 witness: approve_trade has just refused an intent because of the
\* breaker, in a state where every other check would have let it through.
C6_Witness ==
    /\ circuit_breaker_active
    /\ approval.reason = "circuit_breaker"
    /\ check_trade_allowed_noBreaker(daily_pnl, match_exposure[approval.match])
         = "allowed"

\* C7: the breaker becomes active exactly when max_consecutive_errors
\* record_error calls have occurred with no record_success or reset between
\* them; a shorter run leaves it inactive.
C7_BreakerTripsAtThreshold ==
    [][ /\ (error_run' >= max_consecutive_errors => circuit_breaker_active')
        /\ ((~circuit_breaker_active /\ circuit_breaker_active')
               => error_run' = max_consecutive_errors) ]_vars

\* C7 witness: the fifth consecutive record_error has just tripped the breaker.
C7_Witness ==
    /\ circuit_breaker_active
    /\ error_run = max_consecutive_errors
    /\ consecutive_errors = max_consecutive_errors

\* C8: once active the breaker stays active under every other operation;
\* only reset_circuit_breaker clears it, and that reset zeroes the counter.
C8_OnlyResetClearsBreaker ==
    [][ (circuit_breaker_active /\ ~circuit_breaker_active')
           => (ResetCircuitBreaker /\ consecutive_errors' = 0) ]_vars

\* C8 witness: record_success has zeroed the counter of an active breaker
\* and the breaker is still active.
C8_Witness ==
    /\ circuit_breaker_active
    /\ consecutive_errors = 0
    /\ error_run = 0

\* The size C9 states: min(bankroll x fraction, max(0, limit + daily P&L),
\* max(0, cap - exposure of the match)).
ClampedMin(m) ==
    Min(MulFrac(bankroll, max_per_trade_pct),
        Min(Max(0, daily_loss_limit + daily_pnl),
            Max(0, per_match_max_exposure - match_exposure[m])))

Abs(x) == IF x >= 0 THEN x ELSE -x

TestSettings ==
    /\ bankroll = 10000 * Dollar
    /\ max_per_trade_pct = 50
    /\ daily_loss_limit = 500 * Dollar
    /\ per_match_max_exposure = 200 * Dollar

\* C9 as stated: the size approve_trade sets equals that minimum exactly.
C9_SizeEqualsMin ==
    approval.approved => approval.size = ClampedMin(approval.match)

\* C9 as amended: the size approve_trade sets is that minimum rounded to
\* the nearest cent; with a bankroll of 10,000 at 0.5% it is 50.00 with no
\* exposure, 20.00 at a daily P&L of -480 against a limit of 500, and 20.00
\* at an exposure of 180 against a cap of 200.
C9_SizeIsMinRoundedToCent ==
    approval.approved =>
        LET m == approval.match IN
        /\ approval.size % Cent = 0
        /\ 2 * Abs(approval.size - ClampedMin(m)) <= Cent
        /\ (TestSettings /\ daily_pnl = 0 /\ match_exposure[m] = 0)
              => approval.size = 50 * Dollar
        /\ (TestSettings /\ daily_pnl = -(480 * Dollar) /\ match_exposure[m] = 0)
              => approval.size = 20 * Dollar
        /\ (TestSettings /\ daily_pnl = 0 /\ match_exposure[m] = 180 * Dollar)
              => approval.size = 20 * Dollar

\* C9 witness: an approval whose size is the rounded minimum and not the
\* minimum itself (a bankroll of 1,234.56: 6.1728 becomes 6.17).
C9_Witness ==
    /\ approval.approved
    /\ approval.size # ClampedMin(approval.match)
    /\ approval.size = round2(ClampedMin(approval.match))

\* The conditions C10 names, on a daily P&L and an exposure of the match.
RejectCondition(pnl, exposure) ==
    \/ pnl <= -daily_loss_limit
    \/ exposure >= per_match_max_exposure
    \/ calculate_position_size(pnl, exposure) < Dollar

\* C10 as stated: approve_trade returns (None, reason) and changes no
\* bankroll, daily P&L, exposure, error counter or breaker flag whenever one
\* of the conditions holds when it is called; otherwise, with the breaker
\* inactive, it returns the intent with a size of at least 1.00.
C10_RejectsAndLeavesStateAlone ==
    [][ approval'.reason # "none" =>
          LET m == approval'.match
              rej == RejectCondition(daily_pnl, match_exposure[m])
          IN  /\ rej => /\ ~approval'.approved
                        /\ UNCHANGED <<bankroll, daily_pnl, match_exposure,
                                       consecutive_errors, circuit_breaker_active>>
              /\ (~rej /\ ~circuit_breaker_active)
                    => (approval'.approved /\ approval'.size >= Dollar) ]_vars

\* C10 as amended: approve_trade first applies the daily rollover (on a new
\* date daily P&L becomes zero and all exposure is cleared); it changes
\* nothing else (no bankroll, error counter or breaker flag, and no daily P&L
\* or exposure when the date has not changed).  It returns (None, reason)
\* whenever, after that rollover, one of the conditions holds; otherwise,
\* with the breaker inactive, it returns the intent with a size >= 1.00.
C10_RejectsAfterRollover ==
    [][ approval'.reason # "none" =>
          LET m == approval'.match
              rej == RejectCondition(daily_pnl', match_exposure'[m])
          IN  /\ UNCHANGED <<bankroll, consecutive_errors, circuit_breaker_active>>
              /\ (today = current_date => UNCHANGED <<daily_pnl, match_exposure>>)
              /\ (rej => ~approval'.approved)
              /\ (~rej /\ ~circuit_breaker_active)
                    => (approval'.approved /\ approval'.size >= Dollar) ]_vars

\* C10 witness: approve_trade has just refused an intent whose clamped
\* size is below 1.00 while no other check refuses it.
C10_Witness ==
    /\ approval.reason = "size_too_small"
    /\ ~circuit_breaker_active
    /\ daily_pnl > -daily_loss_limit
    /\ match_exposure[approval.match] < per_match_max_exposure

\* C11: once the daily P&L has reached the loss-limit floor, approvals stay
\* refused until the daily rollover: a step that is not a rollover leaves the
\* floor reached and approves nothing.  (Violated: record_trade_result adds a
\* profitable close to the daily P&L, which lifts it above the floor, and
\* check_trade_allowed looks at the current value only.)
C11_FloorGatesUntilRollover ==
    [][(daily_pnl <= -daily_loss_limit /\ current_date' = current_date)
         => (daily_pnl' <= -daily_loss_limit /\ ~approval'.approved)]_vars

\* C12: a closed "yes" Position of size S entered at e and exited at x has
\* realized P&L S * (x - e) / e, to the cent, and a Trade finalized with it
\* has that pnl.  (Violated: StateManager.close_position computes
\* (x - e) * S; entry 0.30, exit 0.40, size 50 gives 5.00, not 16.67.)
C12_RealizedPnlPerDollarRisked ==
    NoRepeat =>
      \A p \in 1..Len(positions) :
         (positions[p].status = "closed" /\ positions[p].outcome = "yes") =>
            /\ Abs(positions[p].realized_pnl
                   - calculate_pnl_dollars(positions[p].entry_price,
                                           positions[p].current_price,
                                           positions[p].size, "yes")) <= Cent
            /\ trades[p].exit_time =>
                 trades[p].pnl_pct
                   = calculate_pnl_pct(trades[p].entry_price,
                                       trades[p].exit_price, "yes")

\* C13: every P&L computation turns the sign for "no": a finalized Trade's
\* pnl and pnl_pct never have opposite signs, and the fraction the exit
\* triggers use is positive for an open "no" Position exactly when the price
\* is below entry.  (Violated: close_position's pnl_pct and
\* check_exit_conditions' fraction are (price - entry) / entry whatever the
\* outcome, while realized and unrealized P&L turn the sign.)
C13_SameSignEverywhere ==
    /\ \A k \in 1..Len(trades) :
          trades[k].exit_time =>
             /\ ~(trades[k].pnl > 0 /\ trades[k].pnl_pct < 0)
             /\ ~(trades[k].pnl < 0 /\ trades[k].pnl_pct > 0)
    /\ \A p \in open_positions :
          positions[p].outcome = "no" =>
             /\ (exit_trigger_pct(positions[p]) > 0
                   <=> positions[p].current_price < positions[p].entry_price)
             /\ (positions[p].unrealized_pnl > 0
                   <=> positions[p].current_price < positions[p].entry_price)

\* C14: get_exit_reason returns the first trigger that holds in the order
\* take-profit, stop-loss, time-exit, contest-ended, and None only when no
\* trigger holds.
C14_ExitReasonPriority ==
    returned.op = "get_exit_reason" =>
       LET position == positions[returned.arg]
           tp == check_take_profit(position)
           sl == check_stop_loss(position)
           te == check_time_exit(returned.time_open)
           me == returned.ended
       IN  /\ tp => returned.value = "take_profit"
           /\ (sl /\ ~tp) => returned.value = "stop_loss"
           /\ (te /\ ~tp /\ ~sl) => returned.value = "time_exit"
           /\ (me /\ ~tp /\ ~sl /\ ~te) => returned.value = "match_ended"
           /\ returned.value = "none" <=> ~(tp \/ sl \/ te \/ me)

\* C14 witness: take-profit was returned while time-exit and contest-ended
\* held as well.
C14_Witness ==
    /\ returned.op = "get_exit_reason"
    /\ returned.value = "take_profit"
    /\ check_time_exit(returned.time_open)
    /\ returned.ended

\* A step of process_goal / process_scoring_event before the execution: the
\* call itself, or its continuation when create_mapping has answered.
EvaluationStep(md) ==
    \/ loop[md].pc = "dispatch" /\ invocations' # invocations
    \/ loop[md].pc = "mapping" /\ mappings' # mappings

ExecutorAndLedgerUnchanged ==
    UNCHANGED <<orders, pending_orders, completed_orders, positions,
                open_positions, closed_positions, trades, consecutive_errors,
                circuit_breaker_active>>

C16_FailedSubmissionIsRejected ==
    \A i \in 1..Len(orders) :
       orders[i].answer \in {"none", "error"} =>
          /\ orders[i].status = "rejected"
          /\ orders[i].error_message # ""
          /\ i \notin pending_orders

\* C16 witness: a submission raised, another was answered with None.
C16_Witness ==
    /\ \E i \in 1..Len(orders) : orders[i].answer = "error"
    /\ \E i \in 1..Len(orders) : orders[i].answer = "none"

Terminal == {"filled", "rejected", "cancelled"}

Occurrences(seq, x) == Cardinality({j \in 1..Len(seq) : seq[j] = x})

IsPrefix(a, b) == Len(a) <= Len(b) /\ \A j \in 1..Len(a) : a[j] = b[j]

\* C17: every Order in a terminal status is out of the pending working set
\* and exactly once in the completed history, and the completed history only
\* grows at its end.
C17_TerminalOrdersCompletedOnce ==
    [][/\ \A i \in 1..Len(orders') :
             orders'[i].status \in Terminal =>
                /\ i \notin pending_orders'
                /\ Occurrences(completed_orders', i) = 1
       /\ IsPrefix(completed_orders, completed_orders')]_vars

\* C17 witness: a filled and a rejected Order are in the completed history.
C17_Witness ==
    /\ \E j \in 1..Len(completed_orders) :
          orders[completed_orders[j]].status = "filled"
    /\ \E j \in 1..Len(completed_orders) :
          orders[completed_orders[j]].status = "rejected"

AllowedTransitions ==
    {<<"pending", "submitted">>, <<"submitted", "filled">>,
     <<"submitted", "cancelled">>, <<"pending", "rejected">>}

\* C18: every status an Order has had follows from the one before along
\* pending -> submitted, submitted -> filled, submitted -> cancelled or
\* pending -> rejected; a terminal status is therefore never left.
C18_StatusFollowsStateMachine ==
    \A i \in 1..Len(orders) :
       /\ orders[i].trail[Len(orders[i].trail)] = orders[i].status
       /\ \A j \in 1..(Len(orders[i].trail) - 1) :
             <<orders[i].trail[j], orders[i].trail[j + 1]>>
                \in AllowedTransitions

\* C18 witness: an Order went from pending to submitted to filled, and
\* check_order_status has just been called for it.
C18_Witness ==
    /\ returned.op = "check_order_status"
    /\ orders[returned.arg].trail = <<"pending", "submitted", "filled">>

\* C19: cancel_order returns True and marks the Order cancelled only when the
\* Order is pending, has an exchange id and the exchange confirms; otherwise
\* it returns False and changes no Order and neither collection.
C19_CancelOnlyPendingAndConfirmed ==
    [][returned'.op = "cancel_order" =>
         LET id == returned'.arg
             valid == /\ id \in pending_orders
                      /\ orders[id].exchange_order_id
                      /\ returned'.exchange_says = "confirms"
         IN  /\ returned'.value = "True" <=> valid
             /\ valid => orders'[id].status = "cancelled"
             /\ ~valid => UNCHANGED <<orders, pending_orders,
                                      completed_orders>>]_vars

\* C19 witness: cancel_order has just returned False for an Order in the
\* pending working set whose cancellation the exchange would confirm.
C19_Witness ==
    /\ returned.op = "cancel_order"
    /\ returned.arg \in pending_orders
    /\ returned.exchange_says = "confirms"
    /\ returned.value = "False"

\* C20: check_order_status resolves an Order that execute returned as
\* submitted: once the exchange lists it as filled or cancelled, the Order's
\* status becomes that.  (Violated: execute has already moved the submitted
\* Order to the completed history, and check_order_status asks the exchange
\* only for Orders in the pending working set.)
C20_SubmittedOrderIsResolved ==
    [][(/\ returned'.op = "check_order_status"
        /\ orders[returned'.arg].status = "submitted"
        /\ returned'.exchange_says \in {"filled", "cancelled"})
          => orders'[returned'.arg].status = returned'.exchange_says]_vars

\* ----------------------------------------------------------- claims C21-C30

\* The entry Order whose submission the step answers: it leaves the pending
\* set with the exchange's answer recorded on it.
Answered(id) ==
    /\ id \in pending_orders
    /\ id \notin pending_orders'
    /\ orders[id].side = "buy"
    /\ orders'[id].answer # ""

\* C21: an entry submission that fails during event processing (the Order
\* comes back rejected or cancelled) adds exactly one to the Risk Manager's
\* consecutive-error counter and one to the rejected-order telemetry and
\* creates no Position or Trade; one that succeeds sets the counter to zero.
C21_FailureCountsOnceSuccessResets ==
    [][\A id \in 1..Len(orders) :
         Answered(id) =>
           IF orders'[id].status \in {"rejected", "cancelled"}
           THEN /\ consecutive_errors' = consecutive_errors + 1
                /\ rejected_orders' = rejected_orders + 1
                /\ UNCHANGED ledgerVars
           ELSE consecutive_errors' = 0]_vars

\* A second failed submission in a row: both were counted.
C21_Witness ==
    /\ Len(orders) >= 2
    /\ orders[1].side = "buy" /\ orders[1].status = "rejected"
    /\ orders[2].side = "buy" /\ orders[2].status = "rejected"
    /\ consecutive_errors = 2
    /\ rejected_orders = 2
    /\ positions = <<>>

\* C22: when event processing opens a Position, the Risk Manager's exposure
\* of the Position's contest grows by exactly the approved size, the
\* Position's size is the approved size, its entry price is the Order's
\* average fill price or, without one, the intent's limit price, and no
\* other contest's exposure changes.  The approved size is the size the Risk
\* Manager gave the intent, which the entry Order carries from its creation.
C22_OpenedPositionAddsItsSize ==
    [][/\ \A id \in 1..Len(orders') :
            (id > Len(orders) /\ orders'[id].side = "buy")
              => (approval'.approved /\ orders'[id].size = approval'.size)
       /\ \A md \in Modes :
            (loop[md].pc = "submit" /\ Len(positions') = Len(positions) + 1)
              => LET o == orders'[loop[md].order]
                     position == positions'[Len(positions')]
                 IN  /\ position.entry_order = loop[md].order
                     /\ position.match = o.match
                     /\ position.size = orders[loop[md].order].size
                     /\ position.entry_price =
                          (IF o.avg_fill_price # 0 THEN o.avg_fill_price
                           ELSE o.limit_price)
                     /\ match_exposure'[o.match] =
                          match_exposure[o.match] + orders[loop[md].order].size
                     /\ \A m \in Matches \ {o.match} :
                          match_exposure'[m] = match_exposure[m]]_vars

\* Two Positions opened on one contest, the second at its fill price: the
\* exposure of the contest is the sum of their sizes.
C22_Witness ==
    /\ Len(positions) = 2
    /\ positions[1].match = positions[2].match
    /\ positions[2].entry_price = 30
    /\ positions[1].entry_price = 27
    /\ open_positions = {1, 2}
    /\ match_exposure[positions[1].match]
         = positions[1].size + positions[2].size
    /\ match_exposure[positions[1].match] > positions[2].size

\* The close_position call whose exit Order the step answers with success
\* (the Order does not come back rejected) while its Position is still open.
ExitSucceeded(c) ==
    /\ c \in closes
    /\ c \notin closes'
    /\ orders'[c.order].status # "rejected"
    /\ c.pos \in open_positions

\* The Position of a successful close_position moves from the open set to
\* the end of the closed archive, with status closed.
Archived(p) ==
    /\ open_positions' = open_positions \ {p}
    /\ closed_positions' = Append(closed_positions, p)
    /\ positions'[p].status = "closed"

\* C23: when the exit Order of close_position succeeds, the Position moves
\* from the open set to the closed archive with status closed, daily P&L
\* grows by the realized P&L and the contest's exposure shrinks by the
\* Position's size, stopping at zero.
C23_CloseFeedsRiskManager ==
    [][\A c \in closes :
         ExitSucceeded(c) =>
           LET position == positions'[c.pos]
           IN  /\ Archived(c.pos)
               /\ daily_pnl' = daily_pnl + position.realized_pnl
               /\ match_exposure'[position.match] =
                    Max(0, match_exposure[position.match] - position.size)]_vars

\* C23, with the daily rollover: record_trade_result first resets daily P&L
\* and every exposure when the date has changed, and then adds the realized
\* P&L and takes the Position's size off the contest's exposure.
C23_CloseFeedsRiskManagerAfterRollover ==
    [][\A c \in closes :
         ExitSucceeded(c) =>
           LET position == positions'[c.pos]
           IN  /\ Archived(c.pos)
               /\ daily_pnl' = reset_daily_pnl + position.realized_pnl
               /\ match_exposure' =
                    [reset_match_exposure EXCEPT
                       ![position.match] = Max(0, @ - position.size)]
               /\ current_date' = today]_vars

\* A Position closed at a profit on the day it was opened, while another
\* stays open on the same contest: its P&L is the day's, and the exposure
\* left is the other Position's size.
C23_Witness ==
    /\ Len(closed_positions) = 1
    /\ open_positions # {}
    /\ today = 0
    /\ positions[closed_positions[1]].status = "closed"
    /\ positions[closed_positions[1]].realized_pnl > 0
    /\ daily_pnl = positions[closed_positions[1]].realized_pnl
    /\ \E p \in open_positions :
         /\ positions[p].match = positions[closed_positions[1]].match
         /\ match_exposure[positions[p].match] = positions[p].size

\* The step in which the processing of an event fails: the callback of mode
\* md, suspended in create_mapping or in the submission, records an error
\* with the Risk Manager.
ProcessingFails(md) ==
    /\ loop[md].pc \in {"mapping", "submit"}
    /\ loop'[md] # loop[md]
    /\ consecutive_errors' = consecutive_errors + 1

\* C24: event processing never raises to its caller: a fault of mapping
\* creation or of the execution ends the callback with the result None.  The
\* poll task survives it: the listener keeps running, the remaining callbacks
\* of the event are still called, and no event is marked processed or
\* dropped by the failure, so later events are dispatched as before.
C24_FailureReturnsNoneAndLoopGoesOn ==
    [][\A md \in Modes :
         ProcessingFails(md) =>
           /\ returned' = Returned("None")
           /\ running[md] /\ running'[md]
           /\ processed' = processed
           /\ callbacks' = callbacks
           /\ loop'[md] =
                (IF loop[md].todo > 1
                 THEN [pc |-> "dispatch", event |-> loop[md].event,
                       todo |-> loop[md].todo - 1, order |-> 0]
                 ELSE Idle)]_vars

\* The first event of contest 1 failed twice, in create_mapping and in the
\* submission, and the second event of the contest has been dispatched since
\* and opened a Position.
C24_Witness ==
    /\ consecutive_errors = 0
    /\ invocations[<<1, 1>>] = 2
    /\ invocations[<<1, 2>>] >= 1
    /\ \E id \in 1..Len(orders) :
         orders[id].event = <<1, 1>> /\ orders[id].status = "rejected"
    /\ \A id \in 1..Len(orders) : orders[id].event = <<1, 1>> => id = 1
    /\ \E p \in open_positions :
         orders[positions[p].entry_order].event = <<1, 2>>

\* C25: stopping a listener while a callback its poll loop dispatched is
\* suspended in the submission of an entry Order leaves that callback in
\* flight, so that it goes on when the exchange answers.
C25_StopLeavesInvocationRunning ==
    [][\A md \in Modes :
         (running[md] /\ ~running'[md] /\ loop[md].pc = "submit")
           => /\ loop'[md] = loop[md]
              /\ loop[md].order \in pending_orders']_vars

RECURSIVE SumRealized(_)
SumRealized(ps) ==
    IF ps = {} THEN 0
    ELSE LET p == CHOOSE x \in ps : TRUE
         IN  positions[p].realized_pnl + SumRealized(ps \ {p})

\* The Positions in the closed archive.
ClosedSet == {closed_positions[i] : i \in 1..Len(closed_positions)}

\* C26: with the loops of both modes interleaved on the one Risk Manager,
\* within one calendar day, no update is lost: daily P&L is the sum of the
\* realized P&L amounts recorded, one per closed Position, and each contest's
\* exposure is the sum of the exposure changes recorded, plus the size of
\* every Position opened on it and minus the size of every one closed, at
\* every moment and so after the pipelines in flight have finished.
C26_NoUpdateLost ==
    /\ daily_pnl = SumRealized(ClosedSet)
    /\ \A m \in Matches : match_exposure[m] = OpenExposure(m)

\* The callbacks of both modes are suspended in their submissions together,
\* each after its risk approval, while a Position opened earlier counts in
\* its contest's exposure.
C26_Witness ==
    /\ loop["soccer"].pc = "submit"
    /\ loop["nfl"].pc = "submit"
    /\ Cardinality(pending_orders) = 2
    /\ \E p \in open_positions :
         match_exposure[positions[p].match] = positions[p].size

\* C27: the first Risk Manager operation after the calendar date has changed
\* performs the daily rollover: whenever a step changes the Risk Manager's
\* state while the date it last saw is not today's, that step resets daily
\* P&L and the exposures and takes today's date; the rollover leaves breaker
\* flag, error counter and bankroll alone, and with the date unchanged
\* nothing is reset.
C27_FirstOperationRollsOver ==
    [][/\ (current_date # today /\ today' = today /\ riskVars' # riskVars)
            => current_date' = today
       /\ (current_date' # current_date /\ daily_pnl' = 0
             /\ match_exposure' = [m \in Matches |-> 0])
            => UNCHANGED <<circuit_breaker_active, consecutive_errors,
                           bankroll>>
       /\ current_date = today => current_date' = current_date]_vars

\* C28: create_mapping is called for a contest only when no mapping is stored
\* for it; a stored mapping is reused by every later event of the contest,
\* and its content (the market list and the pre-event probabilities) is never
\* replaced.
C28_MappingCreatedOnceAndKept ==
    [][/\ \A m \in Matches :
            mappings[m] # "none" => mappings'[m] = mappings[m]
       /\ \A md \in Modes :
            /\ (loop[md].pc # "mapping" /\ loop'[md].pc = "mapping")
                 => mappings[loop'[md].event[1]] = "none"
            /\ (loop[md].pc = "dispatch"
                  /\ mappings[loop[md].event[1]] # "none")
                 => loop'[md].pc # "mapping"]_vars

\* The second event of contest 1 is being traded on the mapping that the
\* first event created.
C28_Witness ==
    /\ mappings[1] = "markets"
    /\ invocations[<<1, 1>>] = 1
    /\ invocations[<<1, 2>>] = 1
    /\ loop["soccer"].pc = "submit"
    /\ loop["soccer"].event = <<1, 2>>

\* C29: every Position ever added to the ledger is in exactly one of the open
\* set, with status open, and the closed archive, once and with status
\* closed; no Position is deleted, the archive only grows at its end, and a
\* closed Position is never opened again nor closed, and so changed, a
\* second time.
C29_OpenOrArchived ==
    [][/\ \A p \in 1..Len(positions') :
            \/ /\ p \in open_positions'
               /\ positions'[p].status = "open"
               /\ Occurrences(closed_positions', p) = 0
            \/ /\ p \notin open_positions'
               /\ positions'[p].status = "closed"
               /\ Occurrences(closed_positions', p) = 1
       /\ Len(positions') >= Len(positions)
       /\ IsPrefix(closed_positions, closed_positions')
       /\ \A p \in 1..Len(positions) :
            positions[p].status = "closed" => positions'[p] = positions[p]]_vars

\* Two close_position calls for one Position were in flight together and
\* both exit Orders were filled: the Position is in the archive once, closed
\* by the first of them.
C29_Witness ==
    /\ Len(orders) = 3
    /\ orders[2].side = "sell" /\ orders[2].status = "filled"
    /\ orders[3].side = "sell" /\ orders[3].status = "filled"
    /\ closes = {}
    /\ closed_positions = <<1>>
    /\ open_positions = {}
    /\ positions[1].status = "closed"
    /\ positions[1].exit_order \in {2, 3}

\* C30: with the underdog threshold at 0.5, evaluate_goal returns an intent
\* when the scoring side's pre-event probability is 0.35 and its market is
\* priced 0.35 with the liquidity and time filters passing, and it returns
\* None whenever the scoring side's pre-event probability is known and at or
\* above the threshold, 0.65 for one.
C30_UnderdogGetsIntentFavoriteNone ==
    evaluation.op = "evaluate_goal" =>
      LET pre_prob == pre_goal_prob(evaluation.is_home, evaluation.mapping)
          market == evaluation.market
          minute == IF evaluation.goal_minute # 0 THEN evaluation.goal_minute
                    ELSE evaluation.match_minute
      IN  /\ (pre_prob.known /\ pre_prob.value >= underdog_threshold)
                => ~evaluation.result.intent
          /\ (/\ pre_prob = Prob(35)
              /\ market.found
              /\ market.yes_price = 35
              /\ market.yes_volume + market.no_volume >= min_liquidity
              /\ match_minutes - minute >= min_time_remaining)
                => evaluation.result.intent

\* The away side, at 0.35 before the event, scored in minute 75 and its
\* market is at 0.35 with a volume of exactly the minimum: an intent at 0.37.
C30_Witness ==
    /\ evaluation.op = "evaluate_goal"
    /\ ~evaluation.is_home
    /\ evaluation.mapping.pre_goal_away_prob = Prob(35)
    /\ evaluation.mapping.pre_goal_home_prob = Prob(65)
    /\ evaluation.market.yes_price = 35
    /\ evaluation.market.yes_volume + evaluation.market.no_volume = min_liquidity
    /\ evaluation.goal_minute = 75
    /\ evaluation.result = [intent |-> TRUE, limit_price |-> 37]

\* --------------------------------------------- the NFL Strategy Evaluator
\* core/nfl_decision_engine.py.  Prices and probabilities are in cents, a
\* spread in whole points from the home team's side.
max_price_after_score == 70
min_points_for_signal == 6
nfl_underdog_prob == 45
nfl_expected_move == 8
underdog_value_price == 50
low_price == 35
final_quarter == 4
max_score_differential == 21
limit_premium == 3
limit_cap == 95

\* An optional spread.
NoSpread == [known |-> FALSE, value |-> 0]
Spread(v) == [known |-> TRUE, value |-> v]

\* Python's truth value of an optional number: None and 0 are both false.
Truthy(x) == x.known /\ x.value # 0

\* x or y on optional numbers.
OrElse(x, y) == IF Truthy(x) THEN x ELSE y

PointsInputs == {3, 6}
MappingSpreadInputs == {NoSpread, Spread(0), Spread(0 - 7), Spread(7)}
GameSpreadInputs == {NoSpread, Spread(0 - 3)}
ScoreProbInputs ==
    {<<NoProb, NoProb>>, <<Prob(40), Prob(60)>>, <<Prob(60), Prob(40)>>}
NFLMarketInputs ==
    {NoMarket} \cup
    [found : {TRUE}, yes_price : {30, 45, 60, 72}, yes_volume : {40, 50},
     no_volume : {50}]
EventQuarterInputs == {0, 3, 4}
GameQuarterInputs == {2, 4}
ScoreInputs == {<<7, 0>>, <<28, 7>>, <<6, 28>>}

\* The arguments of one call of evaluate_scoring_event: the scoring event
\* (points, side, quarter, score), the game (spread, quarter), the mapping
\* (spread, pre-score probabilities) and the market find_best_market returns.
ScoringInputs ==
    [op : {"scoring_event"}, points_scored : PointsInputs, is_home : BOOLEAN,
     mapping_spread : MappingSpreadInputs, game_spread : GameSpreadInputs,
     pre_score_probs : ScoreProbInputs, market : NFLMarketInputs,
     event_quarter : EventQuarterInputs, game_quarter : GameQuarterInputs,
     score : ScoreInputs]

\* is_underdog: what it returns and which signal its reason names.
nfl_is_underdog(is_home, mapping_spread, game_spread, home_prob, away_prob) ==
    LET spread == OrElse(mapping_spread, game_spread)
    IN  IF ~spread.known
        THEN IF Truthy(home_prob) /\ Truthy(away_prob)
             THEN IF is_home
                  THEN [is_underdog |-> home_prob.value < nfl_underdog_prob,
                        reason |-> "Home prob"]
                  ELSE [is_underdog |-> away_prob.value < nfl_underdog_prob,
                        reason |-> "Away prob"]
             ELSE [is_underdog |-> ~is_home, reason |-> "No spread"]
        ELSE IF is_home
             THEN [is_underdog |-> spread.value > 0, reason |-> "Spread"]
             ELSE [is_underdog |-> spread.value < 0, reason |-> "Spread"]

\* check_value
nfl_check_value(market, pre_score_prob, underdog) ==
    IF market.yes_price > max_price_after_score THEN FALSE
    ELSE IF pre_score_prob.known
            /\ market.yes_price < pre_score_prob.value + nfl_expected_move
         THEN TRUE
    ELSE IF underdog /\ market.yes_price < underdog_value_price THEN TRUE
    ELSE market.yes_price < low_price

\* check_liquidity
nfl_check_liquidity(market) ==
    ~(market.yes_volume + market.no_volume < min_liquidity)

\* check_time_remaining: scoring_event.quarter or game.quarter.
nfl_check_time_remaining(event_quarter, game_quarter) ==
    ~(Or(event_quarter, game_quarter) >= final_quarter)

\* check_score_differential
check_score_differential_strict(score) ==
    ~(Abs(score[1] - score[2]) >= max_score_differential)

check_score_differential(score) ==
    ~(Abs(score[1] - score[2]) > max_score_differential)

\* evaluate_scoring_event: None, or a buy intent on "yes" of size 0.
evaluate_scoring_event(ev) ==
    LET underdog == nfl_is_underdog(ev.is_home, ev.mapping_spread,
                                    ev.game_spread, ev.pre_score_probs[1],
                                    ev.pre_score_probs[2])
        pre_prob == IF ev.is_home THEN ev.pre_score_probs[1]
                    ELSE ev.pre_score_probs[2]
    IN  IF ev.points_scored < min_points_for_signal THEN NoIntent
        ELSE IF ~underdog.is_underdog THEN NoIntent
        ELSE IF ~ev.market.found THEN NoIntent
        ELSE IF ~nfl_check_value(ev.market, pre_prob, underdog.is_underdog)
             THEN NoIntent
        ELSE IF ~nfl_check_liquidity(ev.market) THEN NoIntent
        ELSE IF ~nfl_check_time_remaining(ev.event_quarter, ev.game_quarter)
             THEN NoIntent
        ELSE IF ~check_score_differential(ev.score) THEN NoIntent
        ELSE [intent |-> TRUE, side |-> "buy", outcome |-> "yes", size |-> 0,
              limit_price |-> Min(ev.market.yes_price + limit_premium,
                                  limit_cap)]

\* A call of evaluate_scoring_event on the arguments at hand; underdog is
\* what its call of is_underdog returned.
EvaluateScoringEvent ==
    /\ evaluation.op = "scoring_event"
    /\ evaluation' =
         [op |-> "evaluate_scoring_event", args |-> evaluation,
          underdog |-> nfl_is_underdog(evaluation.is_home,
                                       evaluation.mapping_spread,
                                       evaluation.game_spread,
                                       evaluation.pre_score_probs[1],
                                       evaluation.pre_score_probs[2]),
          result |-> evaluate_scoring_event(evaluation)]
    /\ UNCHANGED <<riskVars, today, histVars, listenerVars, loop, mappings,
                   enabled, executorVars, ledgerVars, closes, invocations,
                   rejected_orders>>

InitScoring ==
    /\ InitRiskManager
    /\ InitPipelineState
    /\ evaluation \in ScoringInputs

NextScoring == EvaluateScoringEvent

SpecScoring == InitScoring /\ [][NextScoring]_vars

\* ----------------------------------------------------------- claims C31-C40
\* The result of the call of evaluate_scoring_event just made, and its
\* arguments.
Scored == evaluation.op = "evaluate_scoring_event"

\* C31: evaluate_scoring_event returns an intent exactly when every filter
\* passes: at least 6 points scored, the scoring team is the underdog, a
\* market was found, the value test passes, the two-sided volume is at least
\* min_liquidity, the quarter is below 4 and the scores differ by at most 21.
\* The intent buys "yes" with size 0 at min(yes_price + 0.03, 0.95).
C31_IntentIffAllFiltersPass ==
    Scored =>
      LET ev == evaluation.args
          pre_prob == IF ev.is_home THEN ev.pre_score_probs[1]
                      ELSE ev.pre_score_probs[2]
          quarter == IF ev.event_quarter # 0 THEN ev.event_quarter
                     ELSE ev.game_quarter
          passes ==
            /\ ev.points_scored >= 6
            /\ evaluation.underdog.is_underdog
            /\ ev.market.found
            /\ nfl_check_value(ev.market, pre_prob, TRUE)
            /\ ev.market.yes_volume + ev.market.no_volume >= min_liquidity
            /\ quarter < 4
            /\ Abs(ev.score[1] - ev.score[2]) <= 21
      IN  /\ evaluation.result.intent <=> passes
          /\ evaluation.result.intent =>
               /\ evaluation.result.side = "buy"
               /\ evaluation.result.outcome = "yes"
               /\ evaluation.result.size = 0
               /\ evaluation.result.limit_price =
                    Min(ev.market.yes_price + 3, 95)

\* An intent for an underdog touchdown at a price of 0.45 while the scores
\* differ by exactly 21.
C31_Witness ==
    /\ Scored
    /\ evaluation.result.intent
    /\ Abs(evaluation.args.score[1] - evaluation.args.score[2]) = 21
    /\ evaluation.result.limit_price = 48

\* C32: is_underdog uses the first signal available, the spread, then the
\* pre-event probabilities, then the default.  Whenever a spread is present,
\* a spread of 0 included, the result comes from a spread alone; the
\* probabilities are used only when there is no spread; the away-side default
\* is used only when there is neither, and its reason names no priced signal.
C32_SpreadThenProbabilityThenDefault ==
    Scored =>
      LET ev == evaluation.args
          u == evaluation.underdog
          spreads == {s \in {ev.mapping_spread, ev.game_spread} : s.known}
          has_probs == ev.pre_score_probs[1].known
                       /\ ev.pre_score_probs[2].known
      IN  /\ spreads # {} =>
                /\ u.reason = "Spread"
                /\ \E s \in spreads :
                     u.is_underdog = IF ev.is_home THEN s.value > 0
                                     ELSE s.value < 0
          /\ (spreads = {} /\ has_probs) =>
                u.reason \in {"Home prob", "Away prob"}
          /\ (spreads = {} /\ ~has_probs) =>
                /\ u.reason = "No spread"
                /\ u.is_underdog = ~ev.is_home

\* Both orchestrators running with the trading switch of the API
\* (POST /trading/enable and /trading/disable) in use.
NextSwitch ==
    \/ NextModes
    \/ \E on \in BOOLEAN : SetTrading(on)

SpecSwitch == InitRisk /\ [][NextSwitch]_vars

\* The entry Orders submitted in the step.
EntrySubmitted ==
    \E i \in (Len(orders) + 1)..Len(orders') : orders'[i].side = "buy"

\* C33: after disable, no scoring event processed by either orchestrator,
\* soccer or NFL, submits an entry Order until enable is called.
C33_DisabledSubmitsNoEntry ==
    [][~enabled["soccer"] => ~EntrySubmitted]_vars

\* TradeService.check_exit_conditions: the reason it closes a Position with,
\* or none.
check_exit_reason(position, time_open) ==
    IF exit_trigger_pct(position) >= take_profit_pct THEN "take_profit"
    ELSE IF exit_trigger_pct(position) <= -stop_loss_pct THEN "stop_loss"
    ELSE IF time_open > 90 THEN "time_exit"
    ELSE "none"

\* One turn of the loop of check_exit_conditions, for the open Position p,
\* time_open minutes after it was opened: with a reason, close_position is
\* called and submits the exit Order.  ended, the status of the contest, is
\* not looked at; it is kept for the comparison with get_exit_reason.
CheckExitConditions(p, time_open, ended) ==
    LET position == positions[p]
        reason == check_exit_reason(position, time_open)
        limit_price == position.current_price - 2
        id == Len(orders) + 1
        o == NewOrder("sell", position.outcome, position.match, position.size,
                      limit_price, NoEvent, 0)
    IN  /\ Quiet
        /\ p \in open_positions
        /\ Room >= 1
        /\ IF reason = "none"
           THEN UNCHANGED <<executorVars, closes>>
           ELSE IF limit_price = 0
           THEN /\ orders' = Append(orders,
                               executed(o, [status |-> "error", avg_price |-> 0]))
                /\ completed_orders' = Append(completed_orders, id)
                /\ UNCHANGED <<pending_orders, closes>>
           ELSE /\ execute_begin(o)
                /\ closes' = closes \cup {[pos |-> p, order |-> id]}
        /\ approval' = NoApproval
        /\ returned' = [op |-> "check_exit_conditions", arg |-> p,
                        value |-> reason, time_open |-> time_open,
                        ended |-> ended, exchange_says |-> ""]
        /\ UNCHANGED <<riskVars, today, error_run, listenerVars, loop,
                       mappings, enabled, ledgerVars, invocations,
                       rejected_orders, evaluation>>

ExitTimeInputs == {89, 90, 91}

\* The ledger with the periodic exit check of scripts/run_bot.py.
NextExit ==
    \/ NextLedger
    \/ \E p \in 1..Len(positions), time_open \in ExitTimeInputs,
          ended \in BOOLEAN : CheckExitConditions(p, time_open, ended)

SpecExit == InitRisk /\ [][NextExit]_vars

\* C34: check_exit_conditions closes exactly the open Positions for which
\* get_exit_reason returns a reason, and with that reason, whatever the
\* Position's outcome, its age and the status of its contest.
C34_ClosesAsGetExitReason ==
    returned.op = "check_exit_conditions" =>
       /\ returned.value = get_exit_reason(positions[returned.arg],
                                           returned.time_open, returned.ended)
       /\ returned.value # "none" =>
             /\ Len(orders) > 0
             /\ orders[Len(orders)].side = "sell"

\* C35: the completed history holds only terminal Orders (filled, rejected,
\* cancelled), and every Order that is pending or submitted is in the pending
\* working set get_pending_orders returns.
C35_CompletedTerminalWorkingPending ==
    /\ \A j \in 1..Len(completed_orders) :
          orders[completed_orders[j]].status \in Terminal
    /\ \A i \in 1..Len(orders) :
          orders[i].status \in {"pending", "submitted"} => i \in pending_orders

\* close_position for an id get_position does not find, an unknown one or one
\* of a Position already closed: it returns None before any order is built.
CloseMissing(p) ==
    /\ Quiet
    /\ p \notin open_positions
    /\ approval' = NoApproval
    /\ returned' = [NoReturn EXCEPT !.op = "close_position_not_found",
                                    !.arg = p, !.value = "None"]
    /\ UNCHANGED <<riskVars, today, error_run, pipeVars>>

\* The ledger with close_position called for any id.
NextClose ==
    \/ NextLedger
    \/ \E p \in 1..(MaxPositions + 1) : CloseMissing(p)

SpecClose == InitRisk /\ [][NextClose]_vars

\* The call of close_position that returns in the step got no Order that
\* counts: the exit Order came back rejected.
ExitFailed(c) ==
    /\ c \in closes
    /\ c \notin closes'
    /\ orders'[c.order].status = "rejected"

\* C36: if the exit Order is rejected (or none is produced), close_position
\* returns None and the Position stays open with its fields, its Trade, the
\* Risk Manager's daily P&L and the exposure unchanged; close_position for
\* an unknown or already closed id submits no order.
C36_FailedCloseChangesNothing ==
    [][/\ \A c \in closes :
            ExitFailed(c) =>
               /\ returned'.op = "close_position"
               /\ returned'.value = "None"
               /\ UNCHANGED <<positions, open_positions, closed_positions,
                              trades, daily_pnl, match_exposure>>
       /\ returned'.op = "close_position_not_found" =>
               /\ returned'.value = "None"
               /\ UNCHANGED <<orders, pending_orders, completed_orders,
                              closes, positions, open_positions,
                              closed_positions, trades, daily_pnl,
                              match_exposure>>]_vars

\* C36 witness: close_position has just returned None for a Position that is
\* still open, after its exit Order was rejected.
C36_Witness ==
    /\ returned.op = "close_position"
    /\ returned.value = "None"
    /\ returned.arg \in open_positions
    /\ \E i \in 1..Len(orders) :
          orders[i].side = "sell" /\ orders[i].status = "rejected"

\* C37: after every completed operation of an orchestrator the trading
\* metrics agree with the ledger: the count of open Positions, the total
\* exposure (the sum of their sizes), the total P&L (the sum of the Trades'
\* P&L) and the counts of winning and losing Trades.
C37_MetricsAgreeWithLedger ==
    /\ metrics.open_positions = Cardinality(open_positions)
    /\ metrics.total_exposure = SumSizes(open_positions)
    /\ metrics.total_pnl = sum_pnl(trades)
    /\ metrics.winning_trades =
          Cardinality({i \in 1..Len(trades) : trades[i].pnl > 0})
    /\ metrics.losing_trades =
          Cardinality({i \in 1..Len(trades) : trades[i].pnl < 0})

\* C38: with the threshold N = max_consecutive_errors fixed, whenever the
\* circuit breaker is inactive the consecutive-error counter is strictly
\* below N; the counter is at or above N only while the breaker is active.
C38_InactiveBreakerMeansCounterBelowThreshold ==
    /\ ~circuit_breaker_active => consecutive_errors < max_consecutive_errors
    /\ consecutive_errors >= max_consecutive_errors => circuit_breaker_active

\* C38 witness: the counter has gone past the threshold with the breaker
\* active, after errors recorded one after the other.
C38_Witness ==
    /\ circuit_breaker_active
    /\ consecutive_errors > max_consecutive_errors
    /\ error_run = consecutive_errors

\* The Trades that have been finalized.
Finalized == {k \in 1..Len(trades) : trades[k].exit_time}

\* C39: when two close_position calls for the same open Position interleave,
\* the Position is closed once: the call that finds it already closed leaves
\* the ledger, the daily P&L and the exposure as they are, so the realized
\* P&L is added at most once, the size released at most once and at most one
\* Trade finalized.
C39_InterleavedClosesCloseOnce ==
    [][/\ \A c \in closes :
            (c \notin closes' /\ c.pos \notin open_positions) =>
               UNCHANGED <<positions, open_positions, closed_positions,
                           trades, daily_pnl, match_exposure>>
       /\ \A p \in 1..Len(positions') : Occurrences(closed_positions', p) <= 1
       /\ Cardinality(Finalized') <= Len(closed_positions')]_vars

\* C39 witness: the second of two close_position calls for one Position has
\* just returned None although its exit Order was filled; one Trade is
\* finalized and the daily P&L holds the realized P&L once.
C39_Witness ==
    /\ returned.op = "close_position"
    /\ returned.value = "None"
    /\ positions[returned.arg].status = "closed"
    /\ Cardinality({i \in 1..Len(orders) :
                      orders[i].side = "sell" /\ orders[i].status = "filled"}) = 2
    /\ Cardinality(Finalized) = 1
    /\ positions[returned.arg].realized_pnl # 0
    /\ daily_pnl = positions[returned.arg].realized_pnl

\* C40: for each Position at most one exit (sell) Order is submitted that is
\* not rejected: no exit Order is accepted by the exchange for a Position
\* that an accepted exit Order has already closed, however close_position
\* calls interleave.
C40_OneAcceptedExitPerPosition ==
    [][\A c \in closes :
          (c \notin closes' /\ c.pos \notin open_positions) =>
             orders'[c.order].status = "rejected"]_vars

====
